---- MODULE Spec2Model ----
(***************************************************************************)
(* EssayBot_API: the multi-agent grading orchestrator (script.py) and the   *)
(* per-tenant index store (rag_pipeline.py), modelled from                  *)
(* src/uploads/prof_sean/.                                                  *)
(*                                                                          *)
(* Texts are TLA+ strings.  JSON values are tagged records:                 *)
(*   [t |-> "num", v |-> Int]      an integer number                        *)
(*   [t |-> "str", v |-> STRING]   a string (decoded content)               *)
(*   [t |-> "lit", v |-> "true" | "false" | "null"]                         *)
(*   [t |-> "arr", v |-> <<value, ...>>]                                    *)
(*   [t |-> "obj", v |-> << <<key, value>>, ... >>]  in insertion order     *)
(* The modelled input alphabet is printable ASCII, space, newline and tab;  *)
(* numbers are integers (no fraction, no exponent, no NaN/Infinity) and     *)
(* string escapes are \" \\ \/ \n \t.                                       *)
(***************************************************************************)
EXTENDS Integers, Sequences, FiniteSets, TLC

VARIABLES
    \* ---- ResponseRepair harness (clean_response_text as a pure function)
    rtext,      \* the value handed to clean_response_text (tagged; JStr for a str)
    rout,       \* its return value ("" before the call)
    rpc,        \* "build" | "done"
    rwraps,     \* wrappers applied to the raw text so far
    \* ---- grading orchestrator (grade_response / run_agent / main)
    gpc,        \* position of the grading process
    slot,       \* the agent slot being resolved, 1..NumAgents
    attempt,    \* run_agent's loop variable, 0..max_retries-1
    calls,      \* generation-service calls made for the current slot
    delays,     \* time.sleep arguments of the current slot, in order
    hist,       \* the current slot's attempts, in order: [class, out] of each reply
    lastReply,  \* what send_post_request returned in the latest attempt
    how,        \* how the current slot resolved: "valid" | "fallback" | "none"
    results,    \* slot -> the dict run_agent returned (Unresolved before)
    final,      \* final_feedback: slot -> [score, feedback]
    total,      \* final_feedback["total_score"]
    \* ---- index store (create_faiss_indices / load_faiss_indices / retrieve)
    ipc,        \* position of the index-building process
    file,       \* the tenant's persisted faiss_index.pkl
    pending,    \* the set being written by the save in progress
    prevFile,   \* the file as it was when the latest save began
    newK,       \* structured_knowledge of the call in progress / last call
    existed,    \* whether that call found an existing set that loaded
    iresult,    \* how the last initialize_rag_pipeline ended
    loaded,     \* the latest load_faiss_indices since that call began
    rres,       \* the latest retrieve_relevant_text since that call began
    icall,      \* the latest initialize_rag_pipeline call: arguments, state of
                \* the file it found, the way it went
    \* ---- topic selection and context retrieval (grade_response, lines 208-211)
    cpc,        \* "start" | "selected" | "done"
    etext,      \* the student response being graded
    cwd,        \* faiss_indices.pkl of the working directory
    cats,       \* the list determine_categories returned
    rlog,       \* augment_with_rag's retrieve_relevant_text calls, in order
    ctx,        \* rag_context
    \* ---- extraction, chunking and classification (process_full_pipeline)
    xpc,        \* "start" | "extracted" | "failed" | "classified"
    xpath,      \* the file_path given
    xlog,       \* the load_course_materials calls made, in order
    xres,       \* extracted_text, or the error that ended the extraction
    xchunks,    \* the chunks the text splitter cut the text into
    xK,         \* structured_knowledge
    \* ---- the command line of rag_pipeline.py (main)
    mpc,        \* "start" | "parsed" | "saving" | "report" | "printed" | "exited"
    margs,      \* the parsed arguments
    mmaterial,  \* what extraction yields for the path given
    mresult,    \* the result dict
    stdout,     \* what has been written to standard output, one item per print
    exit,       \* the exit status (-1 as long as the program has not exited)
    \* ---- prompt building (run_agent, line 123)
    ppc,        \* "start" | "built"
    pagents,    \* the agents module the templates come from
    pslot,      \* which of the four templates
    pessay,     \* essay
    pcontext,   \* rag_context
    pout,       \* the prompt, or the exception format raised
    \* ---- one grading request (grade_response with its HTTP calls)
    agents,     \* the agents module imported
    prompt,     \* run_agent's prompt for the current slot, or the exception
    posted,     \* requests.post calls made so far in this grade_response
    inflight,   \* requests.post calls that have not returned
    service,    \* whether the generation service answers the call in flight
    \* ---- the batch driver (main of script.py, grade_essays of the older copy)
    bpc,        \* "start" | "loaded" | "grading" | "exited"
    driver,     \* "prof_sean" (main) | "legacy" (grade_essays)
    sheet,      \* the spreadsheet: whether it can be read, its rows, whether
                \* the output can be written
    completed,  \* rows graded so far
    statuslog,  \* the records written to <job-id>.status, in order
    saved,      \* whether the output artifact has been written
    bexit,      \* "running" | "returned" | "raised"
    cell        \* the value of the row's response cell that grade_response was
                \* called with (tagged); NoCell when it was called with a str

repairVars == <<rtext, rout, rpc, rwraps>>
gradeVars == <<gpc, slot, attempt, calls, delays, hist, lastReply, how,
               results, final, total>>
indexVars == <<ipc, file, pending, prevFile, newK, existed, iresult, loaded, rres, icall>>
contextVars == <<cpc, etext, cwd, cats, rlog, ctx>>
\* the variables of the subsystems other than repair, grading and index store
extractVars == <<xpc, xpath, xlog, xres, xchunks, xK>>
cliVars == <<mpc, margs, mmaterial, mresult, stdout, exit>>
promptVars == <<ppc, pagents, pslot, pessay, pcontext, pout>>
requestVars == <<agents, prompt, posted, inflight, service>>
batchVars == <<bpc, driver, sheet, completed, statuslog, saved, bexit, cell>>
otherVars == <<promptVars, requestVars, batchVars>>
laterVars == <<contextVars, extractVars, cliVars, otherVars>>
vars == <<repairVars, gradeVars, indexVars, laterVars>>

(***************************************************************************)
(* Characters and strings                                                   *)
(***************************************************************************)
Ch(s, i) == SubSeq(s, i, i)

\* str.strip() / regex \s / the JSON decoder's whitespace, on the modelled alphabet
IsSpace(c) == c \in {" ", "\n", "\t"}

Digits == {"0", "1", "2", "3", "4", "5", "6", "7", "8", "9"}

DigitVal(c) ==
    CASE c = "0" -> 0 [] c = "1" -> 1 [] c = "2" -> 2 [] c = "3" -> 3
      [] c = "4" -> 4 [] c = "5" -> 5 [] c = "6" -> 6 [] c = "7" -> 7
      [] c = "8" -> 8 [] c = "9" -> 9

RECURSIVE SkipWs(_, _)
\* the first index >= i of s that holds no whitespace (Len(s)+1 if none)
SkipWs(s, i) ==
    IF i <= Len(s) /\ IsSpace(Ch(s, i)) THEN SkipWs(s, i + 1) ELSE i

RECURSIVE SkipWsBack(_, _)
SkipWsBack(s, j) ==
    IF j >= 1 /\ IsSpace(Ch(s, j)) THEN SkipWsBack(s, j - 1) ELSE j

\* str.strip()
Strip(s) ==
    LET a == SkipWs(s, 1)
        b == SkipWsBack(s, Len(s))
    IN IF a > b THEN "" ELSE SubSeq(s, a, b)

\* s[i:].startswith(p)
StartsAt(s, i, p) ==
    /\ i + Len(p) - 1 <= Len(s)
    /\ SubSeq(s, i, i + Len(p) - 1) = p

\* p in s
Contains(s, p) == \E i \in 1..(Len(s) - Len(p) + 1) : StartsAt(s, i, p)

\* the first index >= i at which p occurs in s, 0 if there is none
Find(s, p, i) ==
    LET F(K) == IF K = {} THEN 0 ELSE CHOOSE k \in K : \A m \in K : k <= m
    IN F({k \in i..(Len(s) - Len(p) + 1) : StartsAt(s, k, p)})

RECURSIVE SplitOn(_, _, _)
\* s[i-1:].split(sep), for a non-empty sep
SplitOn(s, sep, i) ==
    LET F(k) == IF k = 0 THEN <<SubSeq(s, i, Len(s))>>
                ELSE <<SubSeq(s, i, k - 1)>> \o SplitOn(s, sep, k + Len(sep))
    IN F(Find(s, sep, i))

UpperCase == "ABCDEFGHIJKLMNOPQRSTUVWXYZ"
LowerCase == "abcdefghijklmnopqrstuvwxyz"

\* str.lower() of one character of the modelled alphabet
LowerCh(c) ==
    IF \E i \in 1..Len(UpperCase) : Ch(UpperCase, i) = c
    THEN Ch(LowerCase, CHOOSE i \in 1..Len(UpperCase) : Ch(UpperCase, i) = c)
    ELSE c

RECURSIVE LowerRange(_, _, _)
LowerRange(s, i, j) ==
    IF i > j THEN ""
    ELSE IF i = j THEN LowerCh(Ch(s, i))
    ELSE LowerRange(s, i, (i + j) \div 2) \o LowerRange(s, (i + j) \div 2 + 1, j)

\* str.lower()
Lower(s) == LowerRange(s, 1, Len(s))

RECURSIVE Join(_, _)
\* sep.join(q)
Join(q, sep) ==
    IF q = <<>> THEN ""
    ELSE IF Len(q) = 1 THEN q[1]
    ELSE Join(SubSeq(q, 1, Len(q) \div 2), sep) \o sep
            \o Join(SubSeq(q, Len(q) \div 2 + 1, Len(q)), sep)

Range(q) == {q[i] : i \in DOMAIN q}

RECURSIVE Orderings(_)
\* list(S) of a set S: the orders iteration can produce
Orderings(S) ==
    IF S = {} THEN {<<>>}
    ELSE UNION {{<<x>> \o q : q \in Orderings(S \ {x})} : x \in S}

(***************************************************************************)
(* json.loads                                                               *)
(***************************************************************************)
Fail == [ok |-> FALSE, val |-> [t |-> "lit", v |-> "null"], pos |-> 0]
Ok(v, p) == [ok |-> TRUE, val |-> v, pos |-> p]

JNum(n) == [t |-> "num", v |-> n]
JStr(s) == [t |-> "str", v |-> s]
JLit(l) == [t |-> "lit", v |-> l]
\* float('nan'), what pandas gives for an empty cell
NaN == [t |-> "nan", v |-> 0]
\* grade_response was called with a str, not with a cell of a sheet
NoCell == JLit("unset")
JArr(q) == [t |-> "arr", v |-> q]
JObj(q) == [t |-> "obj", v |-> q]

RECURSIVE BsRun(_, _, _)
\* the number of consecutive backslashes of s[a..i-1] that end just before index i
BsRun(s, a, i) ==
    IF i - 1 >= a /\ Ch(s, i - 1) = "\\" THEN 1 + BsRun(s, a, i - 1) ELSE 0

\* index i is the character an escape sequence consumes
EscTail(s, a, i) == BsRun(s, a, i) % 2 = 1

RECURSIVE FirstClose(_, _, _, _)
\* the first index of lo..hi holding the quote that closes the string whose
\* content starts at a (0 if none): the first quote no backslash escapes
FirstClose(s, a, lo, hi) ==
    IF lo > hi THEN 0
    ELSE IF lo = hi
         THEN IF Ch(s, lo) = "\"" /\ ~EscTail(s, a, lo) THEN lo ELSE 0
    ELSE LET mid == (lo + hi) \div 2
             Left(l) == IF l # 0 THEN l ELSE FirstClose(s, a, mid + 1, hi)
         IN Left(FirstClose(s, a, lo, mid))

\* what py_scanstring appends for index i of the content
StrPiece(s, a, i) ==
    IF EscTail(s, a, i) THEN ""
    ELSE IF Ch(s, i) = "\\"
         THEN LET e == Ch(s, i + 1) IN
              IF e = "n" THEN "\n" ELSE IF e = "t" THEN "\t" ELSE e
    ELSE Ch(s, i)

\* py_scanstring accepts index i of the content: a known escape, no control character
StrPieceOk(s, a, i) ==
    IF EscTail(s, a, i) THEN TRUE
    ELSE IF Ch(s, i) = "\\" THEN Ch(s, i + 1) \in {"\"", "\\", "/", "n", "t"}
    ELSE Ch(s, i) \notin {"\n", "\t"}

RECURSIVE StrDecode(_, _, _, _)
StrDecode(s, a, lo, hi) ==
    IF lo > hi THEN ""
    ELSE IF lo = hi THEN StrPiece(s, a, lo)
    ELSE LET mid == (lo + hi) \div 2
         IN StrDecode(s, a, lo, mid) \o StrDecode(s, a, mid + 1, hi)

\* py_scanstring (strict): a is the index after the opening quote
ScanString(s, a) ==
    LET Closed(q) ==
            IF q = 0 THEN Fail
            ELSE IF \A i \in a..(q - 1) : StrPieceOk(s, a, i)
                 THEN Ok(JStr(StrDecode(s, a, a, q - 1)), q + 1)
            ELSE Fail
    IN Closed(FirstClose(s, a, a, Len(s)))

RECURSIVE ScanDigits(_, _, _)
ScanDigits(s, i, n) ==
    IF i <= Len(s) /\ Ch(s, i) \in Digits
    THEN ScanDigits(s, i + 1, 10 * n + DigitVal(Ch(s, i)))
    ELSE [n |-> n, pos |-> i]

\* NUMBER_RE (-?(?:0|[1-9]\d*)), integers only
ScanNumber(s, i) ==
    LET neg == i <= Len(s) /\ Ch(s, i) = "-"
        j == IF neg THEN i + 1 ELSE i
    IN IF j > Len(s) \/ Ch(s, j) \notin Digits THEN Fail
       ELSE IF Ch(s, j) = "0" THEN Ok(JNum(0), j + 1)
       ELSE LET d == ScanDigits(s, j, 0)
            IN Ok(JNum(IF neg THEN 0 - d.n ELSE d.n), d.pos)

RECURSIVE ObjPut(_, _, _)
\* dict[key] = value: a repeated key keeps its place and takes the new value
ObjPut(q, k, v) ==
    IF q = <<>> THEN << <<k, v>> >>
    ELSE IF Head(q)[1] = k THEN << <<k, v>> >> \o Tail(q)
    ELSE <<Head(q)>> \o ObjPut(Tail(q), k, v)

RECURSIVE ScanValue(_, _)
RECURSIVE ScanMembers(_, _, _)
RECURSIVE ScanElements(_, _, _)

\* JSONObject's loop: i is the index of the opening quote of the next key
ScanMembers(s, i, acc) ==
    LET \* after the value: e is the index of the next token, acc2 the dict so far
        AfterValue(e, acc2) ==
            IF e > Len(s) THEN Fail
            ELSE IF Ch(s, e) = "}" THEN Ok(JObj(acc2), e + 1)
            ELSE IF Ch(s, e) = "," THEN ScanMembers(s, SkipWs(s, e + 1), acc2)
            ELSE Fail
        WithValue(k, v) ==
            IF ~v.ok THEN Fail
            ELSE AfterValue(SkipWs(s, v.pos), ObjPut(acc, k.val.v, v.val))
        \* after the key: c is the index where the colon must be
        AfterKey(k, c) ==
            IF c > Len(s) \/ Ch(s, c) # ":" THEN Fail
            ELSE WithValue(k, ScanValue(s, SkipWs(s, c + 1)))
        WithKey(k) == IF ~k.ok THEN Fail ELSE AfterKey(k, SkipWs(s, k.pos))
    IN IF i > Len(s) \/ Ch(s, i) # "\"" THEN Fail
       ELSE WithKey(ScanString(s, i + 1))

\* JSONArray's loop: i is the index of the next element
ScanElements(s, i, acc) ==
    LET AfterValue(e, acc2) ==
            IF e > Len(s) THEN Fail
            ELSE IF Ch(s, e) = "]" THEN Ok(JArr(acc2), e + 1)
            ELSE IF Ch(s, e) = "," THEN ScanElements(s, SkipWs(s, e + 1), acc2)
            ELSE Fail
        WithValue(v) ==
            IF ~v.ok THEN Fail
            ELSE AfterValue(SkipWs(s, v.pos), Append(acc, v.val))
    IN WithValue(ScanValue(s, i))

\* scan_once
ScanValue(s, i) ==
    IF i > Len(s) THEN Fail
    ELSE LET c == Ch(s, i)
             Object(j) ==
                 IF j <= Len(s) /\ Ch(s, j) = "}" THEN Ok(JObj(<<>>), j + 1)
                 ELSE ScanMembers(s, j, <<>>)
             Array(j) ==
                 IF j <= Len(s) /\ Ch(s, j) = "]" THEN Ok(JArr(<<>>), j + 1)
                 ELSE ScanElements(s, j, <<>>)
         IN
         IF c = "\"" THEN ScanString(s, i + 1)
         ELSE IF c = "{" THEN Object(SkipWs(s, i + 1))
         ELSE IF c = "[" THEN Array(SkipWs(s, i + 1))
         ELSE IF StartsAt(s, i, "null") THEN Ok(JLit("null"), i + 4)
         ELSE IF StartsAt(s, i, "true") THEN Ok(JLit("true"), i + 4)
         ELSE IF StartsAt(s, i, "false") THEN Ok(JLit("false"), i + 5)
         ELSE ScanNumber(s, i)

\* json.loads(s): [ok |-> FALSE] stands for JSONDecodeError
json_loads(s) ==
    LET Whole(r) ==
            IF ~r.ok THEN Fail
            ELSE IF SkipWs(s, r.pos) # Len(s) + 1 THEN Fail     \* "Extra data"
            ELSE r
    IN Whole(ScanValue(s, SkipWs(s, 1)))

(***************************************************************************)
(* json.dumps                                                               *)
(***************************************************************************)
\* encode_basestring_ascii for one character
EscapeChar(c) ==
    IF c = "\"" THEN "\\\""
    ELSE IF c = "\\" THEN "\\\\"
    ELSE IF c = "\n" THEN "\\n"
    ELSE IF c = "\t" THEN "\\t"
    ELSE c

RECURSIVE EscapeRange(_, _, _)
EscapeRange(s, lo, hi) ==
    IF lo > hi THEN ""
    ELSE IF lo = hi THEN EscapeChar(Ch(s, lo))
    ELSE LET mid == (lo + hi) \div 2
         IN EscapeRange(s, lo, mid) \o EscapeRange(s, mid + 1, hi)

\* encode_basestring_ascii, without the surrounding quotes
EscapeString(s) == EscapeRange(s, 1, Len(s))

RECURSIVE json_dumps(_)
RECURSIVE DumpItems(_, _)
RECURSIVE DumpPairs(_, _)

DumpItems(q, i) ==
    IF i > Len(q) THEN ""
    ELSE (IF i > 1 THEN ", " ELSE "") \o json_dumps(q[i]) \o DumpItems(q, i + 1)

DumpPairs(q, i) ==
    IF i > Len(q) THEN ""
    ELSE (IF i > 1 THEN ", " ELSE "")
         \o "\"" \o EscapeString(q[i][1]) \o "\": " \o json_dumps(q[i][2])
         \o DumpPairs(q, i + 1)

json_dumps(j) ==
    CASE j.t = "num" -> ToString(j.v)
      [] j.t = "str" -> "\"" \o EscapeString(j.v) \o "\""
      [] j.t = "lit" -> j.v
      [] j.t = "arr" -> "[" \o DumpItems(j.v, 1) \o "]"
      [] j.t = "obj" -> "{" \o DumpPairs(j.v, 1) \o "}"

\* key in dict
HasKey(j, k) == j.t = "obj" /\ \E i \in 1..Len(j.v) : j.v[i][1] = k

\* dict.get(key, default)
GetKey(j, k, default) ==
    IF HasKey(j, k)
    THEN j.v[CHOOSE i \in 1..Len(j.v) : j.v[i][1] = k][2]
    ELSE default

(***************************************************************************)
(* ResponseRepair: clean_response_text                                      *)
(***************************************************************************)
InvalidFormatFallback == "{\"score\": 0, \"feedback\": \"Invalid response format detected.\"}"
ParseErrorFallback == "{\"score\": 0, \"feedback\": \"Error parsing response.\"}"

RECURSIVE FirstQuote(_, _, _)
\* the first index of lo..hi that holds a double quote (0 if none)
FirstQuote(s, lo, hi) ==
    IF lo > hi THEN 0
    ELSE IF lo = hi THEN IF Ch(s, lo) = "\"" THEN lo ELSE 0
    ELSE LET mid == (lo + hi) \div 2
             Left(l) == IF l # 0 THEN l ELSE FirstQuote(s, mid + 1, hi)
         IN Left(FirstQuote(s, lo, mid))

\* re.match(r'"(?:essay|text)":\s*"([^"]+)"', s[i-1:]): [ok, group]
EssayMatchAt(s, i) ==
    LET klen == IF StartsAt(s, i, "\"essay\":") THEN 8
                ELSE IF StartsAt(s, i, "\"text\":") THEN 7
                ELSE 0
        Group(j, q) ==
            IF klen > 0 /\ j <= Len(s) /\ Ch(s, j) = "\"" /\ q > j + 1
            THEN [ok |-> TRUE, group |-> SubSeq(s, j + 1, q - 1)]
            ELSE [ok |-> FALSE, group |-> ""]
        Value(j) == Group(j, FirstQuote(s, j + 1, Len(s)))
    IN Value(SkipWs(s, i + klen))

RECURSIVE FirstEssay(_, _, _)
\* the first index of lo..hi at which the pattern matches (0 if none)
FirstEssay(s, lo, hi) ==
    IF lo > hi THEN 0
    ELSE IF lo = hi THEN IF EssayMatchAt(s, lo).ok THEN lo ELSE 0
    ELSE LET mid == (lo + hi) \div 2
             Left(l) == IF l # 0 THEN l ELSE FirstEssay(s, mid + 1, hi)
         IN Left(FirstEssay(s, lo, mid))

\* re.search(r'"(?:essay|text)":\s*"([^"]+)"', s): the leftmost match
EssaySearch(s) ==
    LET At(i) == IF i = 0 THEN [ok |-> FALSE, group |-> ""] ELSE EssayMatchAt(s, i)
    IN At(FirstEssay(s, 1, Len(s)))

\* what re.sub(r'(?<!\\)"', '\\"', s) writes for index i
QuotePiece(s, i) ==
    IF Ch(s, i) = "\"" /\ (i = 1 \/ Ch(s, i - 1) # "\\") THEN "\\\"" ELSE Ch(s, i)

RECURSIVE EscapeQuotesRange(_, _, _)
EscapeQuotesRange(s, lo, hi) ==
    IF lo > hi THEN ""
    ELSE IF lo = hi THEN QuotePiece(s, lo)
    ELSE LET mid == (lo + hi) \div 2
         IN EscapeQuotesRange(s, lo, mid) \o EscapeQuotesRange(s, mid + 1, hi)

\* re.sub(r'(?<!\\)"', '\\"', s)
EscapeQuotes(s) == EscapeQuotesRange(s, 1, Len(s))

\* what re.sub(r',\s*([\]}])', r'\1', s) writes for index i: a comma, and the
\* whitespace after it, is dropped when a closing bracket follows
CommaPiece(s, i) ==
    LET c == Ch(s, i)
        k == SkipWs(s, i + 1)
        b == SkipWsBack(s, i)
    IN IF c = "," /\ k <= Len(s) /\ Ch(s, k) \in {"]", "}"} THEN ""
       ELSE IF IsSpace(c) /\ b >= 1 /\ Ch(s, b) = ","
               /\ k <= Len(s) /\ Ch(s, k) \in {"]", "}"} THEN ""
       ELSE c

RECURSIVE StripCommasRange(_, _, _)
StripCommasRange(s, lo, hi) ==
    IF lo > hi THEN ""
    ELSE IF lo = hi THEN CommaPiece(s, lo)
    ELSE LET mid == (lo + hi) \div 2
         IN StripCommasRange(s, lo, mid) \o StripCommasRange(s, mid + 1, hi)

\* re.sub(r',\s*([\]}])', r'\1', s)
StripTrailingCommas(s) == StripCommasRange(s, 1, Len(s))

\* lines 88-100: up to two layers of decoding, then back to a string
DecodeLayers(cleaned) ==
    LET Second(inner, d2) ==
            IF ~d2.ok THEN inner
            ELSE IF d2.val.t = "str" THEN d2.val.v
            ELSE json_dumps(d2.val)
        First(d1) ==
            IF ~d1.ok THEN cleaned
            ELSE IF d1.val.t = "str" THEN Second(d1.val.v, json_loads(d1.val.v))
            ELSE json_dumps(d1.val)
    IN First(json_loads(cleaned))

\* lines 102-115: the regex repairs and the final parse
FinalParse(cleaned) ==
    LET Parsed(p) == IF p.ok THEN json_dumps(p.val) ELSE ParseErrorFallback
    IN Parsed(json_loads(StripTrailingCommas(EscapeQuotes(cleaned))))

\* lines 80-86: the object is returned when it parses with both keys
DirectObject(cleaned) ==
    LET Parsed(p) ==
            IF p.ok /\ HasKey(p.val, "score") /\ HasKey(p.val, "feedback")
            THEN [ok |-> TRUE, out |-> json_dumps(p.val)]
            ELSE [ok |-> FALSE, out |-> ""]
    IN Parsed(IF Len(cleaned) >= 1 /\ Ch(cleaned, 1) = "{"
                 /\ Ch(cleaned, Len(cleaned)) = "}"
              THEN json_loads(cleaned) ELSE Fail)

\* lines 72-77: the function-call wrapper
Unwrap(cleaned) ==
    LET Matched(m) == IF m.ok THEN m.group ELSE cleaned
    IN IF Contains(cleaned, "parameters") THEN Matched(EssaySearch(cleaned))
       ELSE cleaned

\* clean_response_text(text); x is a tagged value, JStr(s) for a str
clean_response_text(x) ==
    IF x.t # "str" THEN InvalidFormatFallback
    ELSE LET Direct(cleaned, d) ==
                 IF d.ok THEN d.out ELSE FinalParse(DecodeLayers(cleaned))
             Cleaned(cleaned) == Direct(cleaned, DirectObject(cleaned))
         IN Cleaned(Unwrap(Strip(x.v)))

(***************************************************************************)
(* ResponseRepair harness: the texts a generation service produces, built   *)
(* from a payload by the wrappings free-form model output shows.            *)
(***************************************************************************)
MaxWraps == 2

WellFormedText == "{\"score\": 25, \"feedback\": \"Good structure.\"}"

RepairBodies ==
    { WellFormedText,
      "{\"score\": 35, \"feedback\": \"ok\"}",
      "{\"feedback\": \"ok\", \"score\": -3, \"extra\": [1, null]}",
      "{\"score\": \"high\", \"feedback\": \"ok\"}",
      "{\"score\": null, \"feedback\": 3}",
      "{\"score\": 25, \"feedback\": \"say \\\"hi\\\"\"}",
      "{\"score\": 25, \"feedback\": \"ok\",}",
      "{\"score\": 25}",
      "{\"feedback\": \"ok\"}",
      "{\"score\": 25, \"feedback\": \"ok\"",
      "{score: 25, feedback: ok}",
      "{}",
      "[]",
      "[1, 2,]",
      "[{\"score\": 1, \"feedback\": \"x\"}]",
      "5",
      "-7",
      "01",
      "null",
      "true",
      "hello",
      "The score is 25.",
      "",
      "\"" }

\* the model wrapped its output in one more layer of string quoting
WrapEncode(s) == json_dumps(JStr(s))
\* the model answered with a function-call structure
WrapFunctionCall(s) ==
    "{\"name\": \"grade\", \"parameters\": {\"essay\": " \o json_dumps(JStr(s)) \o "}}"
WrapToolText(s) == "{\"parameters\": {\"text\": \"" \o s \o "\"}}"
\* surrounding whitespace
WrapPad(s) == " \n" \o s \o "\t "
\* prose before the payload
WrapProse(s) == "Here is the result: " \o s

NonStrInputs == { JLit("null"), JNum(5), JObj(<<>>) }

RepairInit ==
    /\ rtext \in {JStr(b) : b \in RepairBodies} \cup NonStrInputs
    /\ rout = ""
    /\ rpc = "build"
    /\ rwraps = 0

CanWrap == rpc = "build" /\ rwraps < MaxWraps /\ rtext.t = "str"

DoWrap(t) ==
    /\ rtext' = JStr(t)
    /\ rwraps' = rwraps + 1
    /\ UNCHANGED <<rout, rpc, gradeVars, indexVars, laterVars>>

Encode == CanWrap /\ DoWrap(WrapEncode(rtext.v))
FunctionCall == CanWrap /\ DoWrap(WrapFunctionCall(rtext.v))
ToolText == CanWrap /\ DoWrap(WrapToolText(rtext.v))
Pad == CanWrap /\ DoWrap(WrapPad(rtext.v))
Prose == CanWrap /\ DoWrap(WrapProse(rtext.v))

\* the call clean_response_text(text)
Repair ==
    /\ rpc = "build"
    /\ rout' = clean_response_text(rtext)
    /\ rpc' = "done"
    /\ UNCHANGED <<rtext, rwraps, gradeVars, indexVars, laterVars>>

(***************************************************************************)
(* Grading orchestrator: send_post_request, run_agent, grade_response       *)
(***************************************************************************)
max_retries == 3
NumAgents == 4

Slots == 1..NumAgents

\* what send_post_request hands to run_agent
TransportFailure == [kind |-> "none", text |-> ""]       \* None
NoFieldReply == [kind |-> "nofield", text |-> ""]        \* a dict without "response"
\* "response" holds a value that is not a str: null or a number, as JSON text
NonTextReply(value) == [kind |-> "nontext", text |-> value]
TextReply(t) == [kind |-> "text", text |-> t]            \* "response" holds the str t
NoReply == [kind |-> "unset", text |-> ""]

AgentTexts ==
    { WellFormedText,
      "{\"score\": 35, \"feedback\": \"ok\"}",
      "{\"score\": \"high\", \"feedback\": \"ok\"}",
      "{\"score\": 25, \"feedback\": null}",
      "{\"score\": 25}",
      WrapEncode(WellFormedText),
      "hello",
      "5" }

send_post_request ==
    {TransportFailure, NoFieldReply, NonTextReply("null"), NonTextReply("42")}
    \cup {TextReply(t) : t \in AgentTexts}

Pair(score, feedback) == JObj(<< <<"score", score>>, <<"feedback", feedback>> >>)
FallbackPair == Pair(JNum(0), JStr("Fallback response due to JSON error."))
default_feedback == Pair(JNum(0), JStr("No response generated."))
Unresolved == JLit("unresolved")

\* a backoff that grows linearly instead
BackoffLinear(a) == 2 * a

\* sleep_time = 2 ** attempt
Backoff(a) == 2 ^ a

\* the dict run_agent accepts: both keys present
ValidStructure(j) == HasKey(j, "score") /\ HasKey(j, "feedback")

\* the body of one iteration of run_agent's loop, lines 127-148:
\*   "ok" with the accepted dict, "fail" (ValueError / JSONDecodeError, caught)
\*   or "raise" (an exception the except clause does not name)
AttemptResult(reply) ==
    IF reply.kind \in {"none", "nofield"} THEN [out |-> "fail", val |-> Unresolved]
    ELSE IF reply.kind # "text" THEN [out |-> "raise", val |-> Unresolved]
    ELSE LET Validated(feedback_json) ==
                 IF feedback_json.ok /\ ValidStructure(feedback_json.val)
                 THEN [out |-> "ok", val |-> feedback_json.val]
                 ELSE [out |-> "fail", val |-> Unresolved]
             Parsed(feedback_text) == Validated(json_loads(feedback_text))
         IN Parsed(clean_response_text(JStr(Strip(reply.text))))

AttemptTable == [r \in send_post_request |-> AttemptResult(r)]

\* the answers the generation service gives while a job of the batch driver
\* runs: the connection fails, "response" holds null or a number, or it holds
\* an object whose score is a number or a string
JobReplies ==
    { TransportFailure, NonTextReply("null"), NonTextReply("42"),
      TextReply(WellFormedText), TextReply("{\"score\": \"high\", \"feedback\": \"ok\"}") }

\* exceptions the loop catches: retry after a sleep, or give up with the fallback
AfterFailure ==
    IF attempt < max_retries - 1
    THEN /\ gpc' = "sleep"
         /\ UNCHANGED <<how, results>>
    ELSE /\ gpc' = "resolved"
         /\ how' = "fallback"
         /\ results' = [results EXCEPT ![slot] = FallbackPair]

\* the text is a JSON object with a score and a feedback field
IsScoreFeedbackText(t) ==
    LET Parsed(p) == p.ok /\ ValidStructure(p.val) IN Parsed(json_loads(t))

ReplyClass(reply) ==
    CASE reply.kind = "none" -> "transport"
      [] reply.kind = "nofield" -> "nofield"
      [] reply.kind = "nontext" -> "nontext"
      [] reply.kind = "text" ->
            IF IsScoreFeedbackText(reply.text) THEN "wellformed" ELSE "malformed"

ClassTable == [r \in send_post_request |-> ReplyClass(r)]

\* lines 137-155 of one attempt: what run_agent does with the value
\* send_post_request returned
HandleReply(reply) ==
    LET r == AttemptTable[reply] IN
    /\ lastReply' = reply
    /\ calls' = calls + 1
    /\ hist' = Append(hist, [class |-> ClassTable[reply], out |-> r.out])
    /\ CASE r.out = "ok" ->
              /\ gpc' = "resolved"
              /\ how' = "valid"
              /\ results' = [results EXCEPT ![slot] = r.val]
         [] r.out = "fail" -> AfterFailure
         [] r.out = "raise" ->
              /\ gpc' = "crashed_agent"
              /\ UNCHANGED <<how, results>>

\* time.sleep(2 ** attempt), then the next iteration
AgentSleep ==
    /\ gpc = "sleep"
    /\ delays' = Append(delays, Backoff(attempt))
    /\ attempt' = attempt + 1
    /\ gpc' = "call"
    /\ UNCHANGED <<slot, calls, hist, lastReply, how, results, final, total>>
    /\ UNCHANGED <<repairVars, indexVars, laterVars>>

\* Python's a + b on the modelled values: [ok |-> FALSE] is a TypeError
PyAdd(a, b) ==
    LET IsInt(x) == x.t = "num" \/ (x.t = "lit" /\ x.v \in {"true", "false"})
        \* bool is a subclass of int: True is 1, False is 0
        IntOf(x) == IF x.t = "num" THEN x.v ELSE IF x.v = "true" THEN 1 ELSE 0
    IN
    IF IsInt(a) /\ IsInt(b) THEN [ok |-> TRUE, val |-> JNum(IntOf(a) + IntOf(b))]
    ELSE IF a.t = "str" /\ b.t = "str" THEN [ok |-> TRUE, val |-> JStr(a.v \o b.v)]
    ELSE IF a.t = "arr" /\ b.t = "arr" THEN [ok |-> TRUE, val |-> JArr(a.v \o b.v)]
    ELSE [ok |-> FALSE, val |-> JLit("null")]

\* run_agent(...) or default_feedback
OrDefault(fb) == IF fb.t = "obj" /\ Len(fb.v) = 0 THEN default_feedback ELSE fb

\* final_feedback's entries for one slot, lines 224-233
FinalEntry(fb) ==
    [score |-> GetKey(OrDefault(fb), "score", JNum(0)),
     feedback |-> GetKey(OrDefault(fb), "feedback", JStr("No feedback."))]

\* final_feedback["total_score"], lines 235-236
TotalScore(f) ==
    LET s12 == PyAdd(f[1].score, f[2].score)
        s123 == IF s12.ok THEN PyAdd(s12.val, f[3].score) ELSE s12
    IN IF s123.ok THEN PyAdd(s123.val, f[4].score) ELSE s123

NoFinal == [i \in Slots |-> [score |-> Unresolved, feedback |-> Unresolved]]

\* the aggregation that ends grade_response
Aggregate ==
    /\ gpc = "resolved"
    /\ slot = NumAgents
    /\ LET f == [i \in Slots |-> FinalEntry(results[i])]
           t == TotalScore(f)
       IN /\ final' = f
          /\ IF t.ok
             THEN gpc' = "done" /\ total' = t.val
             ELSE gpc' = "crashed_sum" /\ total' = Unresolved
    /\ UNCHANGED <<slot, attempt, calls, delays, hist, lastReply, how, results>>
    /\ UNCHANGED <<repairVars, indexVars, laterVars>>

GradeOff ==
    /\ gpc = "off"
    /\ slot = 1
    /\ attempt = 0
    /\ calls = 0
    /\ delays = <<>>
    /\ hist = <<>>
    /\ lastReply = NoReply
    /\ how = "none"
    /\ results = [i \in Slots |-> Unresolved]
    /\ final = NoFinal
    /\ total = Unresolved

RepairOff ==
    /\ rtext = JStr("")
    /\ rout = ""
    /\ rpc = "off"
    /\ rwraps = 0

(***************************************************************************)
(* Index store: categorize_extracted_text, create_faiss_indices,            *)
(* load_faiss_indices, retrieve_relevant_text, initialize_rag_pipeline      *)
(***************************************************************************)
MaxFiles == 2
RetrieveK == 5

Categories ==
    { "Market Segmentation", "Targeting", "Differentiation & Positioning",
      "Marketing Mix (4Ps)", "Marketing Strategy & Planning" }

chunk_size == 800
chunk_overlap == 200

\* _split_text_with_regex(text, separator, keep_separator = True): the pieces
\* between separators, each but the first led by the separator, none empty
SplitKeep(text, separator) ==
    LET NonEmpty(piece) == piece # ""
        F(parts) ==
          SelectSeq([i \in 1..Len(parts) |->
                       IF i = 1 THEN parts[1] ELSE separator \o parts[i]], NonEmpty)
    IN IF separator = "" THEN [i \in 1..Len(text) |-> Ch(text, i)]
       ELSE F(SplitOn(text, separator, 1))

\* _join_docs with separator "" and strip_whitespace: no chunk if nothing is left
JoinDocs(current_doc) ==
    LET F(text) == IF text = "" THEN <<>> ELSE <<text>>
    IN F(Strip(Join(current_doc, "")))

RECURSIVE Shrink(_, _, _)
\* _merge_splits, the while loop: drop leading pieces until the overlap and the
\* next piece fit
Shrink(current_doc, total_len, len) ==
    IF total_len > chunk_overlap \/ (total_len + len > chunk_size /\ total_len > 0)
    THEN Shrink(Tail(current_doc), total_len - Len(current_doc[1]), len)
    ELSE [doc |-> current_doc, total |-> total_len]

RECURSIVE MergeFrom(_, _, _, _, _)
\* _merge_splits(splits, ""), from the i-th piece on
MergeFrom(splits, i, docs, current_doc, total_len) ==
    IF i > Len(splits) THEN docs \o JoinDocs(current_doc)
    ELSE IF total_len + Len(splits[i]) > chunk_size /\ current_doc # <<>>
         THEN LET F(kept) ==
                    MergeFrom(splits, i + 1, docs \o JoinDocs(current_doc),
                              Append(kept.doc, splits[i]), kept.total + Len(splits[i]))
              IN F(Shrink(current_doc, total_len, Len(splits[i])))
         ELSE MergeFrom(splits, i + 1, docs, Append(current_doc, splits[i]),
                        total_len + Len(splits[i]))

merge_splits(good_splits) ==
    IF good_splits = <<>> THEN <<>> ELSE MergeFrom(good_splits, 1, <<>>, <<>>, 0)

RECURSIVE SplitText(_, _)
RECURSIVE SplitPieces(_, _, _, _)
\* _split_text, the loop over the pieces from the i-th on: the short pieces up
\* to the next long one are collected and merged, the long piece is split again
\* with the separators that remain
SplitPieces(splits, i, final_chunks, new_separators) ==
    LET Long == {j \in i..Len(splits) : Len(splits[j]) >= chunk_size}
        F(j) ==
          IF j = 0
          THEN final_chunks \o merge_splits(SubSeq(splits, i, Len(splits)))
          ELSE SplitPieces(splits, j + 1,
                           final_chunks \o merge_splits(SubSeq(splits, i, j - 1))
                           \o (IF new_separators = <<>> THEN <<splits[j]>>
                               ELSE SplitText(splits[j], new_separators)),
                           new_separators)
    IN F(IF Long = {} THEN 0 ELSE CHOOSE j \in Long : \A m \in Long : j <= m)

\* _split_text(text, separators): the first separator that occurs in the text
\* (the empty one always does) cuts it
SplitText(text, separators) ==
    LET F(k) ==
          SplitPieces(SplitKeep(text, separators[k]), 1, <<>>,
                      IF separators[k] = "" THEN <<>>
                      ELSE SubSeq(separators, k + 1, Len(separators)))
    IN F(CHOOSE k \in DOMAIN separators :
            /\ separators[k] = "" \/ Contains(text, separators[k])
            /\ \A j \in 1..(k - 1) :
                  separators[j] # "" /\ ~Contains(text, separators[j]))

\* RecursiveCharacterTextSplitter(chunk_size, chunk_overlap).split_text(text),
\* with the splitter's default separators
split_text(text) == SplitText(text, <<"\n\n", "\n", " ", "">>)

RECURSIVE Rep(_, _)
\* s * n
Rep(s, n) == IF n = 0 THEN "" ELSE s \o Rep(s, n - 1)

\* a passage of 795 characters without a blank line
SegmentationPassage == Rep("Segmentation divides a market into groups of buyers. ", 15)

\* a passage of 780 characters without a blank line that names all four steps
StepsPassage ==
    Rep("Segmentation, targeting, differentiation and positioning build on each other. ", 10)

\* The texts load_course_materials gives for the files of the modelled course
\* materials: two short passages that end in a newline, one of them a short
\* case study, and a text the splitter cuts into three chunks, the last two of
\* which name all four steps
FileTexts ==
    { "Segmentation divides a market.\n",
      "A short case study of pricing.\n",
      SegmentationPassage \o "\n\n" \o StepsPassage \o "\n\n"
         \o "Segmentation, Targeting, Differentiation, POSITIONING." }

\* the ValueError of the directory loops, lines 341-344 and 394-395
NoValidDocuments == "No valid documents found in directory"

\* str(e) of the exceptions extraction ends in: the directory loops' error,
\* load_course_materials' ValueErrors of lines 150-158 and the Exception an
\* extractor raises when the file cannot be read (line 118)
ExtractionErrors ==
    { NoValidDocuments,
      "Unsupported file format: .xyz",
      "No text could be extracted from file: notes.txt",
      "TXT extraction error: [Errno 13] Permission denied: 'notes.txt'" }

\* what extraction yields.  A failure carries str(e).  A success carries the
\* chunks the splitter cuts the extracted text into, len(extracted_text) and
\* the number of files that gave text.
Failed(error) == [ok |-> FALSE, chunks |-> <<>>, error |-> error, length |-> 0, files |-> 0]

\* extraction was not reached
NoMaterial == Failed("")

\* lines 398-409 and 347-350: the texts of the files that loaded, in listing
\* order, are joined with a blank line; the splitter cuts the joined text
ExtractedFrom(all_texts) ==
    LET F(extracted_text) ==
          [ok |-> TRUE, chunks |-> split_text(extracted_text), error |-> "",
           length |-> Len(extracted_text), files |-> Len(all_texts)]
    IN F(Join(all_texts, "\n\n"))

Materials ==
    {Failed(error) : error \in ExtractionErrors}
    \cup {ExtractedFrom(q) : q \in UNION {[1..n -> FileTexts] : n \in 1..MaxFiles}}

\* the chunks of the modelled course materials
ChunkTexts == UNION {{m.chunks[i] : i \in DOMAIN m.chunks} : m \in Materials}

\* the keys of category_embeddings, in the order the dict holds them
CategoryOrder ==
    << "Market Segmentation", "Targeting", "Differentiation & Positioning",
       "Marketing Mix (4Ps)", "Marketing Strategy & Planning" >>

\* cosine(chunk_embedding, category_embeddings[cat]): the embedding model is a
\* fixed function of the texts; it is stood for by a distance of 0 to a
\* category one of whose words the (lower-cased) chunk holds, 1 to the general
\* last category and 2 to the others
Distance(low, cat) ==
    CASE cat = "Market Segmentation" -> IF Contains(low, "segmentation") THEN 0 ELSE 2
      [] cat = "Targeting" -> IF Contains(low, "targeting") THEN 0 ELSE 2
      [] cat = "Differentiation & Positioning" ->
            IF Contains(low, "positioning") THEN 0 ELSE 2
      [] cat = "Marketing Mix (4Ps)" -> IF Contains(low, "pricing") THEN 0 ELSE 2
      [] cat = "Marketing Strategy & Planning" -> 1

\* min(category_embeddings.keys(), key=...), lines 210-211: the first key, in
\* the order of the dict, whose distance is the least
Nearest(chunk) ==
    LET First(d) ==
          CategoryOrder[CHOOSE i \in DOMAIN d :
                           /\ \A j \in DOMAIN d : d[i] <= d[j]
                           /\ \A j \in 1..(i - 1) : d[j] > d[i]]
        F(low) == First([i \in DOMAIN CategoryOrder |-> Distance(low, CategoryOrder[i])])
    IN F(Lower(chunk))

\* an exclusion test that drops every chunk holding "case study", short or long
AnyCaseStudy(chunk) == Contains(Lower(chunk), "case study")

\* "case study" in chunk.lower() and len(chunk) > 800
LongCaseStudy(chunk) ==
    Contains(Lower(chunk), "case study") /\ Len(chunk) > chunk_size

\* all(step in doc.page_content.lower() for step in [...four steps...])
NamesAllSteps(chunk) ==
    LET F(low) ==
          \A step \in {"segmentation", "targeting", "differentiation", "positioning"} :
             Contains(low, step)
    IN F(Lower(chunk))

\* what the code computes from a chunk's text, computed once for ChunkTexts
ChunkFacts(chunk) ==
    [drop |-> LongCaseStudy(chunk), best_category |-> Nearest(chunk),
     prioritized |-> NamesAllSteps(chunk)]

ChunkTable == [chunk \in ChunkTexts |-> ChunkFacts(chunk)]

FactsOf(chunk) ==
    IF chunk \in ChunkTexts THEN ChunkTable[chunk] ELSE ChunkFacts(chunk)

\* categorize_extracted_text, from the chunks on: category -> the chunks put in it
categorize_extracted_text(chunks) ==
    [c \in Categories |->
        LET Mine(ch) == ~FactsOf(ch).drop /\ FactsOf(ch).best_category = c
        IN SelectSeq(chunks, Mine)]

\* FAISS.from_texts(texts, embeddings_model): a store of one Document per
\* text, in the order of the texts
from_texts(texts) == [i \in 1..Len(texts) |-> [page_content |-> texts[i]]]

\* doc.page_content for each document
PageContents(docs) == [i \in 1..Len(docs) |-> docs[i].page_content]

NoSet == [c \in {} |-> <<>>]
\* what the indices path holds: items are the (category, store) pairs written
Absent == [kind |-> "absent", items |-> <<>>]
Partial == [kind |-> "partial", items |-> <<>>]      \* opened "wb", not yet fully written
Corrupt == [kind |-> "corrupt", items |-> <<>>]      \* bytes pickle.load rejects
\* pickle.dump(faiss_indices, f), complete: the items of the dict, in the order
\* they were put in (that of structured_knowledge.items())
Pickled(indices) ==
    LET Indexed(c) == c \in DOMAIN indices
        keys == SelectSeq(CategoryOrder, Indexed)
    IN [kind |-> "pickle",
        items |-> [i \in 1..Len(keys) |-> <<keys[i], indices[keys[i]]>>]]

\* load_faiss_indices: the dict pickle.load rebuilds from the items;
\* [ok |-> FALSE] is the None it returns
load_faiss_indices(f) ==
    IF f.kind = "pickle"
    THEN [ok |-> TRUE,
          set |-> [c \in {f.items[i][1] : i \in DOMAIN f.items} |->
                     f.items[CHOOSE i \in DOMAIN f.items : f.items[i][1] = c][2]]]
    ELSE [ok |-> FALSE, set |-> NoSet]

\* an update that adds the new chunks to the index the tenant's set already holds
AppendToExisting(K) ==
    LET old == load_faiss_indices(file).set
    IN [c \in DOMAIN old \cup {c \in Categories : K[c] # <<>>} |->
           (IF c \in DOMAIN old THEN old[c] ELSE <<>>) \o from_texts(K[c])]

\* an update that replaces the topics that received chunks and keeps the
\* indexes of the other topics of the existing set
KeepOtherTopics(K) ==
    LET old == load_faiss_indices(file).set
    IN [c \in DOMAIN old \cup {c \in Categories : K[c] # <<>>} |->
           IF K[c] # <<>> THEN from_texts(K[c]) ELSE old[c]]

\* a build that creates an index for every category, empty ones included
IndexEveryCategory(K) == [c \in Categories |-> from_texts(K[c])]

\* create_faiss_indices, lines 235-245: the dict that is then saved
create_faiss_indices(K) ==
    [c \in {c \in Categories : K[c] # <<>>} |-> from_texts(K[c])]

\* "not faiss_indices" / "if existing_indices": None and the empty dict are falsy
Falsy(l) == ~l.ok \/ DOMAIN l.set = {}

\* the tenant-less default path "faiss_indices.pkl" of the working directory
CwdFile == cwd

Min(a, b) == IF a < b THEN a ELSE b

RECURSIVE Injections(_, _)
\* the sequences of at most n distinct elements of S
Injections(S, n) ==
    IF n = 0 THEN {<<>>}
    ELSE {<<>>} \cup UNION {{<<x>> \o q : q \in Injections(S \ {x}, n - 1)} : x \in S}

\* retriever.invoke(query) on a store, lines 286-290: the positions of the
\* documents the search returns, nearest first.  The embedding of the query
\* fixes the rank of the documents and how many of the k nearest have a score
\* within score_threshold; both are left open: any k or fewer documents of the
\* store, in any order.
SearchHits(index, k) == Injections(DOMAIN index, Min(k, Len(index)))

\* the hits retrieve_relevant_text can get for a category from the file f
HitsIn(f, category) ==
    LET G(faiss_indices) ==
          IF Falsy(faiss_indices) \/ category \notin DOMAIN faiss_indices.set
          THEN {<<>>}
          ELSE SearchHits(faiss_indices.set[category], RetrieveK)
    IN G(load_faiss_indices(f))

RECURSIVE LongestFirst(_)
\* the documents sorted by the length of their text, longest first
LongestFirst(docs) ==
    IF docs = <<>> THEN <<>>
    ELSE LET i == CHOOSE i \in DOMAIN docs :
                     \A j \in DOMAIN docs :
                        \/ Len(docs[i].page_content) > Len(docs[j].page_content)
                        \/ (Len(docs[i].page_content) = Len(docs[j].page_content) /\ i <= j)
         IN <<docs[i]>> \o LongestFirst([k \in 1..(Len(docs) - 1) |->
                                           IF k < i THEN docs[k] ELSE docs[k + 1]])

\* a prioritization that does not keep the order of the search
PrioritizeReordered(docs) ==
    LET IsPrioritized(doc) == FactsOf(doc.page_content).prioritized
        prioritized_docs == SelectSeq(docs, IsPrioritized)
    IN LongestFirst(IF prioritized_docs # <<>> THEN prioritized_docs ELSE docs)

\* lines 291-294: the documents naming all four steps if any, else all
Prioritize(docs) ==
    LET IsPrioritized(doc) == FactsOf(doc.page_content).prioritized
        prioritized_docs == SelectSeq(docs, IsPrioritized)
    IN IF prioritized_docs # <<>> THEN prioritized_docs ELSE docs

\* retrieve_relevant_text, lines 277-294; hits is what the search returns.
\* docs is the list returned, retrieved_docs the documents of the search.
retrieve_relevant_text(category, prof, root, hits) ==
    IF prof /\ ~root                                   \* get_professor_directories
    THEN [raised |-> TRUE, docs |-> <<>>, retrieved_docs |-> <<>>]
    ELSE LET faiss_indices == load_faiss_indices(IF prof THEN file ELSE CwdFile) IN
         IF Falsy(faiss_indices) \/ category \notin DOMAIN faiss_indices.set
         THEN [raised |-> FALSE, docs |-> <<>>, retrieved_docs |-> <<>>]
         ELSE LET index == faiss_indices.set[category]
                  retrieved_docs == [i \in 1..Len(hits) |-> index[hits[i]]]
              IN [raised |-> FALSE, docs |-> PageContents(Prioritize(retrieved_docs)),
                  retrieved_docs |-> retrieved_docs]

\* the arguments of initialize_rag_pipeline, by the first check they fail
ArgCases == {"no_log", "no_root", "empty_path", "missing_path", "no_tenant", "valid"}

NoLoad == [at |-> "none", ok |-> FALSE, set |-> NoSet]
NoRetrieve == [at |-> "none", raised |-> FALSE, docs |-> <<>>, category |-> "",
               indexed |-> FALSE, retrieved_docs |-> <<>>]
NoK == [c \in Categories |-> <<>>]

\* the result dict initialize_rag_pipeline returns; route is the branch taken:
\* "update" (lines 472-506), "full" (process_full_pipeline, lines 512-521) or
\* "raise" (an exception caught at line 525)
Result(success, message, route) ==
    [success |-> success, message |-> message, route |-> route]

\* no result: an exception has left initialize_rag_pipeline
Unhandled == Result(FALSE, "", "crash")

\* setup_logging(professor_username), lines 431-432 and 17-23, opens
\* "rag_pipeline_{professor_username}.log" in the working directory before the
\* try of line 441: logging.FileHandler raises FileNotFoundError when the name
\* holds a "/" and so names a directory that does not exist
LogOpens(professor_username) == ~Contains(professor_username, "/")

\* lines 431-465: the log file, whose exception nothing catches, and the
\* argument checks, in the order the code makes them; each of these raises, and
\* line 525 turns the exception into the result
ArgCheck(args) ==
    CASE args = "no_log" -> Unhandled
      [] args = "no_root" ->
           Result(FALSE, "Error initializing RAG pipeline: Project root not provided",
                  "raise")
      [] args = "empty_path" ->
           Result(FALSE, "Error initializing RAG pipeline: Empty file path provided",
                  "raise")
      [] args = "missing_path" ->
           Result(FALSE, "Error initializing RAG pipeline: Path does not exist: 'x'",
                  "raise")
      [] args = "no_tenant" ->
           Result(FALSE,
                  "Error initializing RAG pipeline: Professor username not provided",
                  "raise")

\* process_full_pipeline's except clause, lines 421-425: str(e) of the
\* exception that ended the extraction
FullPipelineError(material) ==
    Result(FALSE, "Error in process_full_pipeline: " \o material.error, "full")

\* a variant that gives up when the persisted file exists but does not load
RejectUnreadable(args, material, f) ==
    IF args # "valid" THEN ArgCheck(args)
    ELSE IF f.kind # "absent" /\ Falsy(load_faiss_indices(f))
         THEN Result(FALSE, "Error initializing RAG pipeline: unreadable indices",
                     "raise")
         ELSE IF ~material.ok THEN FullPipelineError(material)
         ELSE IF f.kind # "absent"
              THEN Result(TRUE, "Updated FAISS indices with new content", "update")
              ELSE Result(TRUE, "RAG pipeline initialized successfully", "full")

\* initialize_rag_pipeline(file_path, professor_username, project_root) on a
\* tenant whose persisted file is f, up to the save.  f is looked at in lines
\* 469-472; material that cannot be extracted fails the update branch and then
\* process_full_pipeline, which the latter reports.
initialize_rag_pipeline(args, material, f) ==
    IF args # "valid" THEN ArgCheck(args)
    ELSE IF ~material.ok THEN FullPipelineError(material)
    ELSE IF f.kind # "absent" /\ ~Falsy(load_faiss_indices(f))
         THEN Result(TRUE, "Updated FAISS indices with new content", "update")
         ELSE Result(TRUE, "RAG pipeline initialized successfully", "full")

NoCall == [args |-> "none", material |-> FALSE, before |-> "none",
           result |-> Result(FALSE, "", "none")]

\* no reader call is waiting to be looked at: each call of a reader is observed
\* in the state it returns in, before the next step of either process
Quiet == loaded.at = "none" /\ rres.at = "none"

\* initialize_rag_pipeline up to the save: the argument checks, the look at the
\* existing file, extraction and classification.  The update branch and
\* process_full_pipeline both end in create_faiss_indices(structured_knowledge).
InitStart ==
    /\ ipc = "idle"
    /\ Quiet
    /\ \E args \in ArgCases :
          \E material \in (IF args = "valid" THEN Materials ELSE {NoMaterial}) :
             LET result == initialize_rag_pipeline(args, material, file)
             IN /\ icall' = [args |-> args, material |-> material.ok,
                            before |-> file.kind, result |-> result]
                /\ IF result.success
                   THEN /\ newK' = categorize_extracted_text(material.chunks)
                        /\ pending' = create_faiss_indices(newK')
                        /\ existed' = (result.route = "update")
                        /\ ipc' = "save_open"
                        /\ iresult' = "running"
                   ELSE /\ iresult' = IF result.route = "crash" THEN "raised" ELSE "fail"
                        /\ UNCHANGED <<ipc, newK, pending, existed>>
    /\ UNCHANGED <<file, prevFile, loaded, rres>>
    /\ UNCHANGED <<repairVars, gradeVars, laterVars>>

\* open(indices_path, "wb")
SaveOpen ==
    /\ ipc = "save_open"
    /\ Quiet
    /\ prevFile' = file
    /\ file' = Partial
    /\ ipc' = "save_write"
    /\ UNCHANGED <<pending, newK, existed, iresult, loaded, rres, icall>>
    /\ UNCHANGED <<repairVars, gradeVars, laterVars>>

\* pickle.dump(faiss_indices, f) and the close; the call then returns its result
SaveWrite ==
    /\ ipc = "save_write"
    /\ Quiet
    /\ file' = Pickled(pending)
    /\ ipc' = "idle"
    /\ iresult' = "ok"
    /\ UNCHANGED <<pending, prevFile, newK, existed, loaded, rres, icall>>
    /\ UNCHANGED <<repairVars, gradeVars, laterVars>>

\* the process is killed during the save
Crash ==
    /\ ipc = "save_write"
    /\ Quiet
    /\ ipc' = "idle"
    /\ iresult' = "killed"
    /\ UNCHANGED <<file, pending, prevFile, newK, existed, loaded, rres, icall>>
    /\ UNCHANGED <<repairVars, gradeVars, laterVars>>

\* a reader (the grading process) loads the tenant's set
Load ==
    /\ ipc # "off"
    /\ Quiet
    /\ loaded' = [at |-> ipc] @@ load_faiss_indices(file)
    /\ UNCHANGED <<ipc, file, pending, prevFile, newK, existed, iresult, rres, icall>>
    /\ UNCHANGED <<repairVars, gradeVars, laterVars>>

\* a reader calls retrieve_relevant_text(query, category, k, professor_username,
\* project_root); indexed records whether the tenant's set holds the category
Retrieve ==
    /\ ipc # "off"
    /\ Quiet
    /\ \E category \in Categories, prof \in BOOLEAN, root \in BOOLEAN :
          \E hits \in (IF prof /\ ~root THEN {<<>>}
                       ELSE HitsIn(IF prof THEN file ELSE CwdFile, category)) :
             rres' = [at |-> ipc, category |-> category,
                      indexed |-> (prof /\ category \in DOMAIN load_faiss_indices(file).set)]
                     @@ retrieve_relevant_text(category, prof, root, hits)
    /\ UNCHANGED <<ipc, file, pending, prevFile, newK, existed, iresult, loaded, icall>>
    /\ UNCHANGED <<repairVars, gradeVars, laterVars>>

\* the reader's call has returned and its result has been looked at
ReaderDone ==
    /\ ~Quiet
    /\ loaded' = NoLoad
    /\ rres' = NoRetrieve
    /\ UNCHANGED <<ipc, file, pending, prevFile, newK, existed, iresult, icall>>
    /\ UNCHANGED <<repairVars, gradeVars, laterVars>>

IndexOff ==
    /\ ipc = "off"
    /\ file = Absent
    /\ pending = NoSet
    /\ prevFile = Absent
    /\ newK = NoK
    /\ existed = FALSE
    /\ iresult = "none"
    /\ loaded = NoLoad
    /\ rres = NoRetrieve
    /\ icall = NoCall

(***************************************************************************)
(* Topic selection and context retrieval: determine_categories and          *)
(* augment_with_rag, as grade_response calls them (script.py 208-211)       *)
(***************************************************************************)
MaxPhrases == 2

\* what student responses are made of
Phrases ==
    { "Segmentation", "TARGETING", "repositioning", "Differentiation",
      "pricing strategy", "Products", "brand loyalty" }

RECURSIVE PhraseSeqs(_)
PhraseSeqs(n) ==
    IF n = 0 THEN {<<>>}
    ELSE PhraseSeqs(n - 1)
         \cup {Append(q, ph) : q \in {r \in PhraseSeqs(n - 1) : Len(r) = n - 1},
                               ph \in Phrases}

Responses == {Join(q, " ") : q \in PhraseSeqs(MaxPhrases)}

\* a topic selection that compares the response as written, letter case included
DetermineCaseSensitive(response) ==
    LET F(low) ==
          LET categories ==
                (IF Contains(low, "segmentation")
                 THEN {"Market Segmentation"} ELSE {})
                \cup (IF Contains(low, "targeting") THEN {"Targeting"} ELSE {})
                \cup (IF Contains(low, "differentiation") \/ Contains(low, "positioning")
                      THEN {"Differentiation & Positioning"} ELSE {})
                \cup (IF Contains(low, "pricing") \/ Contains(low, "product")
                      THEN {"Marketing Mix (4Ps)"} ELSE {})
          IN IF categories = {} THEN {"Marketing Strategy & Planning"}
             ELSE categories
    IN F(response)

\* determine_categories, lines 185-198: the set the returned list is made from
determine_categories(response) ==
    LET F(low) ==
          LET categories ==
                (IF Contains(low, "segmentation")
                 THEN {"Market Segmentation"} ELSE {})
                \cup (IF Contains(low, "targeting") THEN {"Targeting"} ELSE {})
                \cup (IF Contains(low, "differentiation") \/ Contains(low, "positioning")
                      THEN {"Differentiation & Positioning"} ELSE {})
                \cup (IF Contains(low, "pricing") \/ Contains(low, "product")
                      THEN {"Marketing Mix (4Ps)"} ELSE {})
          IN IF categories = {} THEN {"Marketing Strategy & Planning"}
             ELSE categories
    IN F(Lower(response))

RECURSIVE RetrievalLogs(_, _)
\* what the calls retrieve_relevant_text(essay, category) of lines 167-169 can
\* return, from the i-th category on: one entry per category, in call order
RetrievalLogs(categories, i) ==
    IF i > Len(categories) THEN {<<>>}
    ELSE {<<entry>> \o rest :
            entry \in {[category |-> categories[i]]
                         @@ retrieve_relevant_text(categories[i], FALSE, FALSE, hits) :
                           hits \in HitsIn(CwdFile, categories[i])},
            rest \in RetrievalLogs(categories, i + 1)}

RECURSIVE Extend(_, _)
\* relevant_docs after extend() with each call's result, in call order
Extend(log, i) ==
    IF i > Len(log) THEN <<>> ELSE log[i].docs \o Extend(log, i + 1)

\* the files the working directory can hold under the default name: none, one
\* that does not unpickle, or a set built from course materials
CwdFiles ==
    {Absent, Corrupt}
    \cup {Pickled(create_faiss_indices(categorize_extracted_text(m.chunks))) :
            m \in {x \in Materials : x.ok}}

ContextInit ==
    /\ cpc = "start"
    /\ etext \in Responses
    /\ cwd \in CwdFiles
    /\ cats = <<>>
    /\ rlog = <<>>
    /\ ctx = ""

ContextOff ==
    /\ cpc = "off"
    /\ etext = ""
    /\ cwd = Absent
    /\ cats = <<>>
    /\ rlog = <<>>
    /\ ctx = ""

\* category = determine_categories(response), line 208; list(categories) may
\* come in any order.  response.lower(), line 187, is an AttributeError for a
\* cell that holds no text, which leaves grade_response
DetermineCategories ==
    /\ cpc = "start"
    /\ IF cell.t \in {"nan", "num"}
       THEN cpc' = "crashed" /\ cats' = cats
       ELSE cpc' = "selected" /\ cats' \in Orderings(determine_categories(etext))
    /\ UNCHANGED <<etext, cwd, rlog, ctx>>
    /\ UNCHANGED <<repairVars, gradeVars, indexVars, extractVars, cliVars, otherVars>>

\* relevant_docs = list(set(relevant_docs)), line 172, without its dedup
ListAsIs(docs) == {docs}

\* relevant_docs = list(set(relevant_docs)), line 172: the lists it can give
ListOfSet(docs) == Orderings(Range(docs))

\* rag_context = augment_with_rag(response, category), line 211: one
\* retrieve_relevant_text(essay, category) per category, without a tenant;
\* list(set(relevant_docs)) may come in any order
AugmentWithRag ==
    /\ cpc = "selected"
    /\ \E log \in RetrievalLogs(cats, 1) :
          /\ rlog' = log
          /\ \E relevant_docs \in ListOfSet(Extend(log, 1)) :
                ctx' = IF relevant_docs # <<>>
                       THEN Join(relevant_docs, "\n")
                       ELSE "No relevant context found."
    /\ cpc' = "done"
    /\ UNCHANGED <<etext, cwd, cats>>
    /\ UNCHANGED <<repairVars, gradeVars, indexVars, extractVars, cliVars, otherVars>>

(***************************************************************************)
(* Extraction, chunking and classification: load_course_materials,          *)
(* process_full_pipeline's directory mode, the text splitter and            *)
(* categorize_extracted_text (rag_pipeline.py)                              *)
(***************************************************************************)
\* A path is a record: its name, what the file system holds under it ("file",
\* "dir", or "missing" for a name that does not resolve), whether the reader of
\* its format can read it, the texts the reader yields (pages, paragraphs, or
\* the one text of a plain-text file) and, for a directory, its listing.
Node(name, kind, readable, parts, children) ==
    [name |-> name, kind |-> kind, readable |-> readable, parts |-> parts,
     children |-> children]

File(name, parts) == Node(name, "file", TRUE, parts, <<>>)

Page1 == "Segmentation splits a market into groups. Targeting picks the groups to serve."
\* a passage of 850 characters, in lines, that begins with the words "Case Study"
CaseStudyPassage ==
    "Case Study: how one retailer rebuilt its loyalty.."
    \o Rep("\nIt tracked what each shopper bought every season.", 16)
Page3 == "Pricing follows positioning."

\* the three-page plain-text file of the scenario
Textbook == File("textbook.txt", <<Page1 \o "\n\n" \o CaseStudyPassage \o "\n\n" \o Page3>>)

\* the files a directory of course materials can hold
ChildNodes ==
    { File("Slides.PDF", <<"Segmentation and Targeting. ", "", " Positioning.">>),
      File("syllabus.docx", <<"Pricing the product.", "  ", "A short case study.">>),
      File("notes.txt", <<"Targeting picks a segment.\n">>),
      File("blank.txt", <<" \n\t">>),
      File("scan.pdf", <<"", "">>),
      File("readme.md", <<"Segmentation">>),
      File(".txt", <<"Segmentation">>),
      Node("bad.txt", "file", FALSE, <<>>, <<>>),
      Node("old.txt", "dir", TRUE, <<>>, <<>>),
      Node("link.docx", "missing", TRUE, <<>>, <<>>) }

Dir(children) == Node("materials", "dir", TRUE, <<>>, children)

\* what process_full_pipeline can be given as file_path
Paths ==
    ChildNodes
    \cup {File("", <<>>), Textbook}
    \cup {Dir(q) : q \in UNION {[1..n -> ChildNodes] : n \in 0..MaxFiles}}

\* os.path.splitext(name)[1]: from the last dot on, unless only dots precede it
splitext(name) ==
    LET dots == {i \in 1..Len(name) : Ch(name, i) = "."}
        F(k) == IF \E i \in 1..(k - 1) : Ch(name, i) # "."
                THEN SubSeq(name, k, Len(name)) ELSE ""
    IN IF dots = {} THEN "" ELSE F(CHOOSE k \in dots : \A i \in dots : i <= k)

Raise(error) == [ok |-> FALSE, error |-> error, text |-> ""]
Return(text) == [ok |-> TRUE, error |-> "", text |-> text]

\* extract_text_from_pdf, lines 84-89: pages with text, stripped
extract_text_from_pdf(node) ==
    LET Truthy(page) == page # ""
        pages == SelectSeq(node.parts, Truthy)
    IN Join([i \in 1..Len(pages) |-> Strip(pages[i])], "\n")

\* extract_text_from_docx, lines 99-104: paragraphs that are not blank, stripped
extract_text_from_docx(node) ==
    LET NotBlank(paragraph) == Strip(paragraph) # ""
        paragraphs == SelectSeq(node.parts, NotBlank)
    IN Join([i \in 1..Len(paragraphs) |-> Strip(paragraphs[i])], "\n")

\* extract_text_from_txt, lines 114-115: file.read()
extract_text_from_txt(node) == Join(node.parts, "")

\* load_course_materials: the text, or the error raised.  "EmptyPath" is the
\* ValueError of line 128, "ExtractionError" the Exception the extractors raise
\* (lines 92, 107, 118) when the reader fails on the file.
load_course_materials(node) ==
    IF node.name = "" THEN Raise("EmptyPath")
    ELSE IF node.kind = "missing" THEN Raise("NotFound")
    ELSE IF node.kind = "dir" THEN Raise("IsADirectory")
    ELSE LET G(extracted_text) ==
               IF Strip(extracted_text) = "" THEN Raise("EmptyExtraction")
               ELSE Return(extracted_text)
             F(file_extension) ==
               IF file_extension \notin {".pdf", ".docx", ".txt"}
               THEN Raise("UnsupportedFormat")
               ELSE IF ~node.readable THEN Raise("ExtractionError")
               ELSE G(CASE file_extension = ".pdf" -> extract_text_from_pdf(node)
                        [] file_extension = ".docx" -> extract_text_from_docx(node)
                        [] file_extension = ".txt" -> extract_text_from_txt(node))
         IN F(Lower(splitext(node.name)))

\* lines 381-392: one entry per listed file with a recognized extension, in
\* listing order: the file and what load_course_materials gave for it
LoadEach(children) ==
    LET Recognized(child) == Lower(splitext(child.name)) \in {".pdf", ".docx", ".txt"}
        files == SelectSeq(children, Recognized)
    IN [i \in 1..Len(files) |->
          [node |-> files[i], result |-> load_course_materials(files[i])]]

\* a directory mode that gives up at the first file that fails
FailOnAnyFile(log) ==
    LET Succeeded(entry) == entry.result.ok
        all_texts == SelectSeq(log, Succeeded)
    IN IF Len(all_texts) < Len(log) \/ log = <<>>
       THEN Raise("NoValidDocuments")
       ELSE Return(Join([i \in 1..Len(all_texts) |-> all_texts[i].result.text], "\n\n"))

\* lines 394-398: the texts of the files that loaded, joined; an error if none
JoinLoaded(log) ==
    LET Succeeded(entry) == entry.result.ok
        all_texts == SelectSeq(log, Succeeded)
    IN IF all_texts = <<>> THEN Raise("NoValidDocuments")
       ELSE Return(Join([i \in 1..Len(all_texts) |-> all_texts[i].result.text], "\n\n"))

NoResult == [ok |-> FALSE, error |-> "", text |-> ""]

ExtractInit ==
    /\ xpc = "start"
    /\ xpath \in Paths
    /\ xlog = <<>>
    /\ xres = NoResult
    /\ xchunks = <<>>
    /\ xK = NoK

ExtractOff ==
    /\ xpc = "off"
    /\ xpath = File("", <<>>)
    /\ xlog = <<>>
    /\ xres = NoResult
    /\ xchunks = <<>>
    /\ xK = NoK

\* process_full_pipeline, lines 375-403: directory mode for a directory,
\* load_course_materials for anything else
Extract ==
    /\ xpc = "start"
    /\ IF xpath.kind = "dir"
       THEN /\ xlog' = LoadEach(xpath.children)
            /\ xres' = JoinLoaded(xlog')
       ELSE /\ xlog' = <<[node |-> xpath, result |-> load_course_materials(xpath)]>>
            /\ xres' = xlog'[1].result
    /\ xpc' = IF xres'.ok THEN "extracted" ELSE "failed"
    /\ UNCHANGED <<xpath, xchunks, xK>>
    /\ UNCHANGED <<repairVars, gradeVars, indexVars, contextVars, cliVars, otherVars>>

\* structured_knowledge = categorize_extracted_text(extracted_text), line 409
Categorize ==
    /\ xpc = "extracted"
    /\ xchunks' = split_text(xres.text)
    /\ xK' = categorize_extracted_text(xchunks')
    /\ xpc' = "classified"
    /\ UNCHANGED <<xpath, xlog, xres>>
    /\ UNCHANGED <<repairVars, gradeVars, indexVars, contextVars, cliVars, otherVars>>

(***************************************************************************)
(* The command line of rag_pipeline.py: main                                *)
(***************************************************************************)
\* argv as parse_arguments reads it: what the positional file names ("empty",
\* "missing", "file" for notes.txt, "other" for a file of another format, or
\* "dir"), --professorUsername ("" when it is not given), whether --projectRoot
\* is given, and
\* --reinitialize
CliArgs ==
    [file : {"empty", "missing", "file", "other", "dir"},
     tenant : {"", "prof_sean", "team/sean"},
     root : BOOLEAN, reinitialize : BOOLEAN]

\* what extraction can yield for the path the arguments name
MaterialsOf(kind) ==
    CASE kind = "file" ->
           {m \in Materials : IF m.ok THEN m.files = 1
                               ELSE m.error \in
                                  {"No text could be extracted from file: notes.txt",
                                   "TXT extraction error: [Errno 13] Permission denied: 'notes.txt'"}}
      [] kind = "other" -> {Failed("Unsupported file format: .xyz")}
      [] kind = "dir" -> {m \in Materials : m.ok \/ m.error = NoValidDocuments}
      [] OTHER -> {NoMaterial}

\* the argument checks of initialize_rag_pipeline that these arguments fail first
ArgCaseOf(args) ==
    IF args.tenant # "" /\ ~LogOpens(args.tenant) THEN "no_log"
    ELSE IF ~args.root THEN "no_root"
    ELSE IF args.file = "empty" THEN "empty_path"
    ELSE IF args.file = "missing" THEN "missing_path"
    ELSE IF args.tenant = "" THEN "no_tenant"
    ELSE "valid"

\* print(f"ARGSSSSS", args), line 553: the text written
ArgsLine(args) ==
    "ARGSSSSS Namespace(file="
    \o (CASE args.file = "empty" -> "''"
          [] args.file = "missing" -> "'x'"
          [] args.file = "file" -> "'notes.txt'"
          [] args.file = "other" -> "'notes.xyz'"
          [] args.file = "dir" -> "'materials'")
    \o ", professorUsername=" \o (IF args.tenant # "" THEN "'" \o args.tenant \o "'" ELSE "None")
    \o ", projectRoot=" \o (IF args.root THEN "'/srv/app'" ELSE "None")
    \o ", reinitialize=" \o (IF args.reinitialize THEN "True" ELSE "False") \o ")"

\* lines 555-571: --reinitialize on a directory.  With a tenant,
\* get_indices_path is called without the project root and raises; without
\* one, the indices path has no directory part and os.makedirs("") raises in
\* create_faiss_indices, unless process_directory has already failed.
Reinitialize(args, material) ==
    IF args.tenant # ""
    THEN Result(FALSE, "Error reinitializing RAG pipeline: Project root not provided",
                "reinitialize")
    ELSE IF ~material.ok
         THEN Result(FALSE, "Error reinitializing RAG pipeline: " \o material.error,
                     "reinitialize")
         ELSE Result(FALSE,
                     "Error reinitializing RAG pipeline: [Errno 2] No such file or directory: ''",
                     "reinitialize")

\* lines 469-475: the tenant's file exists and load_faiss_indices gives a set
\* that is not empty, so "load_existing_faiss_indices" is recorded
ExistingLoaded(args, f) ==
    /\ ArgCaseOf(args) = "valid"
    /\ f.kind # "absent"
    /\ ~Falsy(load_faiss_indices(f))

\* result["steps_completed"] of a call that went the given way; existing says
\* whether the tenant's set was there and loaded.  The dict of a failed update
\* is handed to process_full_pipeline with the step recorded at line 475.
StepsCompleted(result, args, existing) ==
    IF ~result.success
    THEN IF result.route = "full" /\ existing
         THEN <<"load_existing_faiss_indices">> ELSE <<>>
    ELSE IF result.route = "full"
         THEN <<"load_course_materials", "categorize_extracted_text",
                "create_faiss_indices">>
    ELSE IF args.file = "dir"
         THEN <<"load_existing_faiss_indices", "process_directory",
                "update_faiss_indices">>
    ELSE <<"load_existing_faiss_indices", "load_course_materials",
           "categorize_extracted_text", "update_faiss_indices">>

\* result["stats"], keys in insertion order: process_full_pipeline, lines
\* 399-412; the update of a file, lines 487-494; the update of a directory,
\* line 482 with process_directory's stats, lines 359-363.  No key is set
\* before extraction has succeeded.
Stats(result, args, K, material) ==
    LET categories ==
          <<"categories",
            JObj([i \in 1..Len(CategoryOrder) |->
                    <<CategoryOrder[i], JNum(Len(K[CategoryOrder[i]]))>>])>>
    IN IF ~result.success THEN JObj(<<>>)
       ELSE IF result.route = "full"
            THEN JObj(<< <<"file_count",
                           JNum(IF args.file = "dir" THEN material.files ELSE 1)>>,
                         <<"extracted_text_length", JNum(material.length)>>,
                         categories >>)
       ELSE IF args.file = "dir"
            THEN JObj(<< <<"num_files", JNum(material.files)>>,
                         <<"total_text_length", JNum(material.length)>>,
                         categories >>)
       ELSE JObj(<< <<"extracted_text_length", JNum(material.length)>>, categories >>)

\* the result dict as a JSON value
ResultJson(result, args, K, material, existing) ==
    JObj(<< <<"success", JLit(IF result.success THEN "true" ELSE "false")>>,
            <<"message", JStr(result.message)>>,
            <<"steps_completed",
              JArr([i \in 1..Len(StepsCompleted(result, args, existing)) |->
                      JStr(StepsCompleted(result, args, existing)[i])])>>,
            <<"stats", Stats(result, args, K, material)>> >>)

\* an exit status that does not look at the result

\* sys.exit(0 if result["success"] else 1), line 583
ExitStatus(result) == IF result["success"] THEN 0 ELSE 1

NoArgs == [file |-> "empty", tenant |-> "", root |-> FALSE, reinitialize |-> FALSE]

\* the files a tenant's indices path can hold when the program starts
TenantFiles ==
    {Absent, Corrupt,
     Pickled(create_faiss_indices(
                categorize_extracted_text(<<"Segmentation divides a market.">>)))}

CliInit ==
    /\ mpc = "start"
    /\ margs \in CliArgs
    /\ mmaterial \in MaterialsOf(margs.file)
    /\ mresult = Result(FALSE, "", "none")
    /\ stdout = <<>>
    /\ exit = -1
    \* the tenant's file and the working directory's
    /\ ipc = "idle"
    /\ file \in TenantFiles
    /\ pending = NoSet
    /\ prevFile = Absent
    /\ newK = NoK
    /\ existed = FALSE
    /\ iresult = "none"
    /\ loaded = NoLoad
    /\ rres = NoRetrieve
    /\ icall = NoCall
    /\ cpc = "off"
    /\ etext = ""
    /\ cwd \in {Absent, Corrupt}
    /\ cats = <<>>
    /\ rlog = <<>>
    /\ ctx = ""

CliOff ==
    /\ mpc = "off"
    /\ margs = NoArgs
    /\ mmaterial = NoMaterial
    /\ mresult = Result(FALSE, "", "none")
    /\ stdout = <<>>
    /\ exit = -1

\* main(), lines 548-553: the arguments are parsed and printed
MainArgs ==
    /\ mpc = "start"
    /\ stdout' = <<ArgsLine(margs)>>
    /\ mpc' = "parsed"
    /\ UNCHANGED <<margs, mmaterial, mresult, exit>>
    /\ UNCHANGED <<indexVars, contextVars>>
    /\ UNCHANGED <<repairVars, gradeVars, extractVars, otherVars>>

\* main(), lines 555-577, up to the save: the forced rebuild of a directory,
\* which removes the default file and fails before any write, or
\* initialize_rag_pipeline up to create_faiss_indices' open
MainRun ==
    /\ mpc = "parsed"
    /\ IF margs.reinitialize /\ margs.file = "dir"
       THEN /\ mresult' = Reinitialize(margs, mmaterial)
            /\ cwd' = IF margs.tenant # "" THEN cwd ELSE Absent  \* os.remove, line 561
            /\ mpc' = "report"
            /\ UNCHANGED <<ipc, pending, newK, existed, iresult, icall, exit>>
       ELSE /\ mresult' = initialize_rag_pipeline(ArgCaseOf(margs), mmaterial, file)
            /\ icall' = [args |-> ArgCaseOf(margs), material |-> mmaterial.ok,
                         before |-> file.kind, result |-> mresult']
            /\ existed' = ExistingLoaded(margs, file)
            /\ cwd' = cwd
            /\ IF mresult'.success
               THEN /\ newK' = categorize_extracted_text(mmaterial.chunks)
                    /\ pending' = create_faiss_indices(newK')
                    /\ ipc' = "save_open"
                    /\ iresult' = "running"
                    /\ mpc' = "saving"
                    /\ exit' = exit
               ELSE IF mresult'.route = "crash"
               \* the exception leaves main: a traceback on stderr, status 1
               THEN /\ iresult' = "raised"
                    /\ mpc' = "exited"
                    /\ exit' = 1
                    /\ UNCHANGED <<ipc, pending, newK>>
               ELSE /\ iresult' = "fail"
                    /\ mpc' = "report"
                    /\ exit' = exit
                    /\ UNCHANGED <<ipc, pending, newK>>
    /\ UNCHANGED <<margs, mmaterial, stdout>>
    /\ UNCHANGED <<file, prevFile, loaded, rres>>
    /\ UNCHANGED <<cpc, etext, cats, rlog, ctx>>
    /\ UNCHANGED <<repairVars, gradeVars, extractVars, otherVars>>

\* print(json.dumps(result)), line 580, once the call has returned
MainReport ==
    /\ \/ mpc = "report"
       \/ mpc = "saving" /\ ipc = "idle" /\ iresult = "ok"
    /\ stdout' = Append(stdout,
                        json_dumps(ResultJson(mresult, margs, newK, mmaterial, existed)))
    /\ mpc' = "printed"
    /\ UNCHANGED <<margs, mmaterial, mresult, exit>>
    /\ UNCHANGED <<indexVars, contextVars>>
    /\ UNCHANGED <<repairVars, gradeVars, extractVars, otherVars>>

\* sys.exit(0 if result["success"] else 1), line 583
MainExit ==
    /\ mpc = "printed"
    /\ exit' = ExitStatus(mresult)
    /\ mpc' = "exited"
    /\ UNCHANGED <<margs, mmaterial, mresult, stdout>>
    /\ UNCHANGED <<indexVars, contextVars>>
    /\ UNCHANGED <<repairVars, gradeVars, extractVars, otherVars>>

(***************************************************************************)
(* Prompt building: agents.py and run_agent's prompt_template.format        *)
(***************************************************************************)
\* The templates of src/uploads/prof_sean/agents.py.  Every brace of the source
\* is kept, in its place; the prose between the braces is shortened.
role_description ==
    "\nYou are a highly detailed and {}} evaluator. Generate **concise, specific feedback**.\n"

feedback_instructions ==
    "\nEvaluate the student's response.\n"
    \o "   - **Use {{rag_context}} for relevant guidance**, but do **not** just suggest it.\n"

json_output_format ==
    "\n### **Instructions**\nReturn the output as a **JSON object only**:\n{{\n"
    \o "  \"score\": <total score 30>,\n"
    \o "  \"feedback\": \"<concise, clear feedback (in between 60-80 words)>\"\n}}\n"

\* str.replace(old, new)
Replace(s, old, new) == Join(SplitOn(s, old, 1), new)

\* the end of each f-string: {{essay}} and {{rag_context}} leave one brace each
Placeholders == "Essay: {essay}  \nRelevant Context: {rag_context}\n"

agent_1_prompt ==
    "\n" \o role_description
    \o "\n\n### **Agent 1: Identification and Order of Steps (30 Points)**\n\n"
    \o feedback_instructions \o "  \n" \o json_output_format \o "  \n\n" \o Placeholders

agent_2_prompt ==
    "\n" \o role_description
    \o "\n\n### **Agent 2: Explanation of Steps (30 Points)**\n\n"
    \o feedback_instructions \o "  \n" \o json_output_format \o "\n\n" \o Placeholders

agent_3_prompt ==
    "\n" \o role_description
    \o "\n\n### **Agent 3: Understanding the Goals of the Steps (30 Points)**\n\n"
    \o feedback_instructions \o "  \n" \o json_output_format \o "  \n\n" \o Placeholders

agent_4_prompt ==
    "\n### **Agent 4: Clarity and Organization (10 Points)**\n\n"
    \o feedback_instructions \o "  \n" \o Replace(json_output_format, "30", "10")
    \o "  \n\n" \o Placeholders

\* An agents module as the specification describes it: four fixed templates
\* that take the response text and the context string.  src/python/script.py
\* imports such a module; src/ does not hold it.
DescribedTemplate(n) ==
    "\n### **Agent " \o ToString(n) \o "**\n" \o json_output_format \o "\n" \o Placeholders

AgentModules == {"prof_sean", "described"}

\* from agents import agent_1_prompt, ..., agent_4_prompt
TemplateOf(module, n) ==
    IF module = "prof_sean"
    THEN CASE n = 1 -> agent_1_prompt [] n = 2 -> agent_2_prompt
           [] n = 3 -> agent_3_prompt [] n = 4 -> agent_4_prompt
    ELSE DescribedTemplate(n)

RECURSIVE FormatFrom(_, _, _, _)
\* str.format(**kw) from index i of the template on, acc being the text
\* produced so far.  Doubled braces give one brace; a lone "}" or an unclosed
\* "{" is a ValueError; a field with an empty name is positional and there are
\* no positional arguments (IndexError); a name that kw lacks is a KeyError.
\* Fields of the modelled templates carry no conversion or format spec.
FormatFrom(t, i, kw, acc) ==
    LET AtBrace(k) ==
           IF k = 0 THEN Return(acc \o SubSeq(t, i, Len(t)))
           ELSE IF k < Len(t) /\ Ch(t, k + 1) = Ch(t, k)
                THEN FormatFrom(t, k + 2, kw, acc \o SubSeq(t, i, k))
           ELSE IF Ch(t, k) = "}" \/ k = Len(t) THEN Raise("ValueError")
           ELSE LET Field(e) ==
                       IF e = 0 THEN Raise("ValueError")
                       ELSE IF e = k + 1 THEN Raise("IndexError")
                       ELSE IF SubSeq(t, k + 1, e - 1) \in DOMAIN kw
                            THEN FormatFrom(t, e + 1, kw,
                                            acc \o SubSeq(t, i, k - 1)
                                                \o kw[SubSeq(t, k + 1, e - 1)])
                            ELSE Raise("KeyError")
                IN Field(Find(t, "}", k + 1))
        FirstBrace(K) == IF K = {} THEN 0 ELSE CHOOSE k \in K : \A m \in K : k <= m
    IN AtBrace(FirstBrace({k \in i..Len(t) : Ch(t, k) \in {"{", "}"}}))

\* prompt_template.format(essay=essay, rag_context=rag_context), line 123
Format(prompt_template, essay, rag_context) ==
    FormatFrom(prompt_template, 1, [essay |-> essay, rag_context |-> rag_context], "")

Essays ==
    {"Segmentation comes first.", "brand {loyalty}", "{essay}", "{rag_context} {}",
     "}{", ""}

Contexts ==
    {"No relevant context found.", "Segmentation divides a market.", "{essay}",
     "a } b", "{{x}}"}

PromptInit ==
    /\ ppc = "start"
    /\ pagents \in AgentModules
    /\ pslot \in Slots
    /\ pessay \in Essays
    /\ pcontext \in Contexts
    /\ pout = NoResult

PromptOff ==
    /\ ppc = "off"
    /\ pagents = "prof_sean"
    /\ pslot = 1
    /\ pessay = ""
    /\ pcontext = ""
    /\ pout = NoResult

\* run_agent up to line 123
BuildPrompt ==
    /\ ppc = "start"
    /\ pout' = Format(TemplateOf(pagents, pslot), pessay, pcontext)
    /\ ppc' = "built"
    /\ UNCHANGED <<pagents, pslot, pessay, pcontext>>
    /\ UNCHANGED <<repairVars, gradeVars, indexVars, contextVars, extractVars, cliVars>>
    /\ UNCHANGED <<requestVars, batchVars>>

(***************************************************************************)
(* One grading request: grade_response from topic selection to the total,   *)
(* each requests.post as a call that is sent and then returns               *)
(***************************************************************************)
\* the responses graded
RequestEssays == {"Segmentation TARGETING", "brand loyalty"}

\* the tenant's persisted set, written by index building for the tenant
TenantSet ==
    create_faiss_indices(categorize_extracted_text(<<"Segmentation divides a market.">>))

\* what the working directory's faiss_indices.pkl can be: absent, or a set that
\* is not the tenant's
RequestCwdFiles ==
    {Absent,
     Pickled(create_faiss_indices(categorize_extracted_text(
                <<"Segmentation, Targeting, Differentiation, POSITIONING.">>)))}

RequestInit ==
    /\ agents \in AgentModules
    /\ prompt = NoResult
    /\ posted = 0
    /\ inflight = 0
    /\ service = "idle"
    \* grade_response has been called
    /\ cpc = "start"
    /\ etext \in RequestEssays
    /\ cwd \in RequestCwdFiles
    /\ cats = <<>>
    /\ rlog = <<>>
    /\ ctx = ""
    /\ gpc = "pending"
    /\ slot = 1
    /\ attempt = 0
    /\ calls = 0
    /\ delays = <<>>
    /\ hist = <<>>
    /\ lastReply = NoReply
    /\ how = "none"
    /\ results = [i \in Slots |-> Unresolved]
    /\ final = NoFinal
    /\ total = Unresolved
    \* the tenant's index has been built
    /\ ipc = "off"
    /\ file = Pickled(TenantSet)
    /\ pending = NoSet
    /\ prevFile = Absent
    /\ newK = NoK
    /\ existed = FALSE
    /\ iresult = "none"
    /\ loaded = NoLoad
    /\ rres = NoRetrieve
    /\ icall = NoCall

\* grade_response is called for a response that names no topic, with no
\* faiss_indices.pkl in the working directory
GradeInit ==
    /\ RequestInit
    /\ etext = "brand loyalty"
    /\ cwd = Absent

RequestOff ==
    /\ agents = "prof_sean"
    /\ prompt = NoResult
    /\ posted = 0
    /\ inflight = 0
    /\ service = "idle"

\* a grade_response that starts on the agents without waiting for the context
ContextAny(pc) == TRUE

\* line 211 has returned: rag_context is there when line 215 calls run_agent
ContextReady(pc) == pc = "done"

\* run_agent is entered, lines 120-124, for the first template or the next:
\* the prompt is built outside the try block, so an exception of format leaves
\* run_agent and grade_response
RunAgent ==
    /\ ContextReady(cpc)
    /\ gpc \in {"pending", "resolved"}
    /\ gpc = "resolved" => slot < NumAgents
    /\ LET Enter(n, built) ==
               /\ slot' = n
               /\ prompt' = built
               /\ gpc' = IF built.ok THEN "call" ELSE "crashed_prompt"
           Build(n) == Enter(n, Format(TemplateOf(agents, n), etext, ctx))
       IN Build(IF gpc = "pending" THEN 1 ELSE slot + 1)
    /\ attempt' = 0
    /\ calls' = 0
    /\ delays' = <<>>
    /\ hist' = <<>>
    /\ lastReply' = NoReply
    /\ how' = "none"
    /\ UNCHANGED <<results, final, total, agents, posted, inflight, service>>
    /\ UNCHANGED <<repairVars, indexVars, contextVars, extractVars, cliVars, promptVars>>
    /\ UNCHANGED batchVars

\* send_post_request is called, line 129, and requests.post(url, json=payload,
\* headers=headers), line 51, sends the request.  No timeout is passed, so the
\* call returns when the service answers or the connection fails; a service
\* that accepts the request may also stay silent.
Post ==
    /\ gpc = "call"
    /\ gpc' = "waiting"
    /\ posted' = posted + 1
    /\ inflight' = inflight + 1
    /\ service' \in {"replies", "silent"}
    /\ UNCHANGED <<slot, attempt, calls, delays, hist, lastReply, how, results, final,
                   total, agents, prompt>>
    /\ UNCHANGED <<repairVars, indexVars, contextVars, extractVars, cliVars, promptVars>>
    /\ UNCHANGED batchVars

\* requests.post returns or raises RequestException; run_agent handles the value
Respond ==
    /\ gpc = "waiting"
    /\ service = "replies"
    /\ \E reply \in (IF bpc = "off" THEN send_post_request ELSE JobReplies) :
          HandleReply(reply)
    /\ inflight' = inflight - 1
    /\ service' = "idle"
    /\ UNCHANGED <<slot, attempt, delays, final, total, agents, prompt, posted>>
    /\ UNCHANGED <<repairVars, indexVars, contextVars, extractVars, cliVars, promptVars>>
    /\ UNCHANGED batchVars

(***************************************************************************)
(* The batch driver: main of script.py (lines 241-355) and grade_essays of  *)
(* src/python/script.py, for a job with an identifier                       *)
(***************************************************************************)
MaxRows == 3

\* Python's float arithmetic for line 326: IEEE 754 binary64, rounded to the
\* nearest value, ties to the even mantissa.  A mantissa is a sequence of bits,
\* most significant first; the integers stay below 2^31.
RECURSIVE RemAfter(_, _, _)
\* rem * 2^(10 * b) mod n, ten bits at a time: a sheet has at most 1048576
\* rows, so n <= 2^20 and rem * 1024 stays below 2^31
RemAfter(rem, n, b) ==
    IF b = 0 THEN rem ELSE (RemAfter(rem, n, b - 1) * 1024) % n

\* the next k bits of rem / n (0 <= rem < n) and the remainder left: bit i is
\* the integer part of rem * 2^i / n, modulo 2
DivBits(rem, n, k) ==
    [bits |-> [i \in 1..k |->
                 ((RemAfter(rem, n, (i - 1) \div 10) * 2 ^ (((i - 1) % 10) + 1))
                     \div n) % 2],
     rem |-> (RemAfter(rem, n, k \div 10) * 2 ^ (k % 10)) % n]

\* the bits with k zeros after them, in a sequence of length len
Shifted(bits, k, len) ==
    [i \in 1..len |->
        IF i <= len - k - Len(bits) \/ i > len - k THEN 0
        ELSE bits[i - (len - k - Len(bits))]]

\* a + b for bit sequences of one length, one bit longer: a carry goes into
\* bit i when a position below it holds two ones and every position between
\* holds at least one
AddBits(a, b) ==
    LET Carry(i) ==
          \E j \in (i + 1)..Len(a) :
             /\ a[j] + b[j] = 2
             /\ \A m \in (i + 1)..(j - 1) : a[m] + b[m] >= 1
    IN <<IF Carry(0) THEN 1 ELSE 0>>
       \o [i \in 1..Len(a) |-> (a[i] + b[i] + (IF Carry(i) THEN 1 ELSE 0)) % 2]

\* without its leading zeros
Normal(bits) ==
    IF \A i \in DOMAIN bits : bits[i] = 0 THEN <<>>
    ELSE SubSeq(bits, CHOOSE i \in DOMAIN bits :
                         bits[i] = 1 /\ \A j \in 1..(i - 1) : bits[j] = 0,
                Len(bits))

\* bits + 1
Increment(bits) ==
    Normal(AddBits(bits, Shifted(<<1>>, 0, Len(bits))))

\* the bits rounded to 53 significant bits; sticky says that the exact value
\* has more below the last bit given.  [bits, shift]: the value is bits * 2^shift
Round53(bits, sticky) ==
    IF Len(bits) <= 53 THEN [bits |-> bits, shift |-> 0]
    ELSE LET kept == SubSeq(bits, 1, 53)
             below == sticky \/ \E i \in 55..Len(bits) : bits[i] = 1
             up == bits[54] = 1 /\ (below \/ kept[53] = 1)
         IN [bits |-> IF up THEN Increment(kept) ELSE kept, shift |-> Len(bits) - 53]

RECURSIVE BitsValue(_, _, _)
BitsValue(bits, i, acc) ==
    IF i > Len(bits) THEN acc ELSE BitsValue(bits, i + 1, 2 * acc + bits[i])

RECURSIVE LeadShift(_, _, _)
\* the least s with d * 2^s >= n
LeadShift(d, n, s) == IF d >= n THEN [s |-> s, d |-> d] ELSE LeadShift(2 * d, n, s + 1)

\* int(((index + 1) / total_rows) * 100) for done = index + 1 in 1..total_rows
FloatProgress(done, total_rows) ==
    LET Floor(y, e) ==                       \* y.bits * 2^(y.shift + e), e < 0
          IF Len(y.bits) + y.shift + e <= 0 THEN 0
          ELSE BitsValue(SubSeq(y.bits, 1, Len(y.bits) + y.shift + e), 1, 0)
        Times100(x, e) ==                    \* x.bits * 2^(x.shift + e), times 100.0
          Floor([bits |-> Round53(Normal(AddBits(
                                     AddBits(Shifted(x.bits, 6, Len(x.bits) + 9),
                                             Shifted(x.bits, 5, Len(x.bits) + 9)),
                                     Shifted(x.bits, 2, Len(x.bits) + 10))), FALSE).bits,
                 shift |-> Round53(Normal(AddBits(
                                     AddBits(Shifted(x.bits, 6, Len(x.bits) + 9),
                                             Shifted(x.bits, 5, Len(x.bits) + 9)),
                                     Shifted(x.bits, 2, Len(x.bits) + 10))), FALSE).shift
                           + x.shift],
                e)
        Quotient(q, s) ==                    \* 1.f from the division, 54 bits of it
          Times100(Round53(<<1>> \o q.bits, q.rem # 0), -53 - s)
        Divide(lead) ==
          Quotient(DivBits(lead.d - total_rows, total_rows, 53), lead.s)
    IN Divide(LeadShift(done, total_rows, 0))

\* the status records main writes
Processing0 == [status |-> "processing", progress |-> 0]
ProcessingLoaded(rowCount) ==
    [status |-> "processing", progress |-> 0, rowCount |-> rowCount]
\* progress = int(((index + 1) / total_rows) * 100), lines 326-333
ProcessingRow(done, total_rows) ==
    [status |-> "processing", progress |-> FloatProgress(done, total_rows),
     rowCount |-> total_rows, completed |-> done]
CompleteRecord(total_rows) ==
    [status |-> "complete", progress |-> 100, rowCount |-> total_rows,
     outputFile |-> "outputs/graded_responses_job.xlsx"]
\* the record of the except clause, lines 349-354: message is str(e)
ErrorRecord(message) == [status |-> "error", message |-> message]
\* the one record grade_essays writes, lines 281-284
LegacyComplete == [status |-> "complete", outputUrl |-> "/api/download/job"]

\* str(e) of what pd.read_excel raises for a sheet that cannot be loaded
ReadError(s) ==
    IF s.exists
    THEN "Excel file format cannot be determined, you must specify an engine manually."
    ELSE "[Errno 2] No such file or directory: 'responses.xlsx'"
\* str(e) of what df.to_excel raises when the output cannot be written
WriteError == "[Errno 13] Permission denied: 'outputs/graded_responses_job.xlsx'"
\* str(KeyError('response')) of row["response"], line 296
NoResponseColumn == "'response'"
\* str(e) of the IndexError of str.format, line 123, for a field without a name
FormatMessage(error) ==
    CASE error = "IndexError" -> "Replacement index 0 out of range for positional args tuple"

\* type(x).__name__ of a modelled value
PyTypeName(x) ==
    CASE x.t = "num" -> "int"
      [] x.t = "str" -> "str"
      [] x.t = "nan" -> "float"
      [] x.t = "arr" -> "list"
      [] x.t = "obj" -> "dict"
      [] x.t = "lit" -> IF x.v = "null" THEN "NoneType" ELSE "bool"

\* str(e) of the AttributeError of x.lower(), line 187, or x.strip(), line 139
NoAttribute(x, name) ==
    "'" \o PyTypeName(x) \o "' object has no attribute '" \o name \o "'"

\* str(e) of the TypeError of a + b
AddError(a, b) ==
    IF a.t \in {"str", "arr"}
    THEN "can only concatenate " \o PyTypeName(a) \o " (not \"" \o PyTypeName(b)
         \o "\") to " \o PyTypeName(a)
    ELSE "unsupported operand type(s) for +: '" \o PyTypeName(a) \o "' and '"
         \o PyTypeName(b) \o "'"

\* str(e) of the TypeError of the sum of lines 235-236, raised by the first
\* addition that fails
SumError(f) ==
    LET s12 == PyAdd(f[1].score, f[2].score)
        s123 == PyAdd(s12.val, f[3].score)
    IN IF ~s12.ok THEN AddError(f[1].score, f[2].score)
       ELSE IF ~s123.ok THEN AddError(s12.val, f[3].score)
       ELSE AddError(s123.val, f[4].score)

\* str(e) of the exception that has left grade_response
GradeError ==
    CASE cpc = "crashed" -> NoAttribute(cell, "lower")
      [] gpc = "crashed_prompt" -> FormatMessage(prompt.error)
      [] gpc = "crashed_agent" -> NoAttribute(json_loads(lastReply.text).val, "strip")
      [] gpc = "crashed_sum" -> SumError(final)

\* what a response cell of the sheet holds: text, nothing, or a number
Cells == {JStr("brand loyalty"), NaN, JNum(42)}

\* the sheet: comments says that it has the columns Comment1 .. Comment4,
\* response that it has the column response, whose cells are cells
Sheets ==
    {s \in [exists : BOOLEAN, readable : BOOLEAN, rows : 0..MaxRows,
            comments : BOOLEAN, response : BOOLEAN, writable : BOOLEAN,
            cells : UNION {[1..n -> Cells] : n \in 0..MaxRows}] :
       /\ s.readable => s.exists
       /\ ~s.readable => s.rows = 0 /\ ~s.comments /\ ~s.response
       /\ Len(s.cells) = IF s.response THEN s.rows ELSE 0}

BatchInit ==
    /\ bpc = "start"
    /\ driver \in {"prof_sean", "legacy"}
    /\ sheet \in Sheets
    /\ completed = 0
    /\ statuslog = <<>>
    /\ saved = FALSE
    /\ bexit = "running"
    /\ cell = NoCell
    /\ agents \in AgentModules
    /\ prompt = NoResult
    /\ posted = 0
    /\ inflight = 0
    /\ service = "idle"

BatchOff ==
    /\ bpc = "off"
    /\ driver = "prof_sean"
    /\ sheet = [exists |-> FALSE, readable |-> FALSE, rows |-> 0, comments |-> FALSE,
                response |-> FALSE, writable |-> FALSE, cells |-> <<>>]
    /\ completed = 0
    /\ statuslog = <<>>
    /\ saved = FALSE
    /\ bexit = "running"
    /\ cell = NoCell

\* main, lines 272-293: the first status record, pd.read_excel, the second
\* record; the Comment columns the sheet lacks are added
LoadSheet ==
    /\ bpc = "start"
    /\ driver = "prof_sean"
    /\ IF sheet.readable
       THEN /\ statuslog' = <<Processing0, ProcessingLoaded(sheet.rows)>>
            /\ bpc' = "loaded"
            /\ bexit' = bexit
       ELSE /\ statuslog' = <<Processing0, ErrorRecord(ReadError(sheet))>>
            /\ bpc' = "exited"
            /\ bexit' = "raised"
    /\ UNCHANGED <<driver, sheet, completed, saved, cell>>
    /\ UNCHANGED <<repairVars, gradeVars, indexVars, contextVars, extractVars, cliVars>>
    /\ UNCHANGED <<promptVars, requestVars>>

\* grade_response(response) is entered, line 204: its locals are fresh and no
\* request has been posted
CallGrade(response) ==
    /\ cell' = response
    /\ etext' = IF response.t = "str" THEN response.v ELSE ""
    /\ cpc' = "start"
    /\ cats' = <<>>
    /\ rlog' = <<>>
    /\ ctx' = ""
    /\ gpc' = "pending"
    /\ slot' = 1
    /\ attempt' = 0
    /\ calls' = 0
    /\ delays' = <<>>
    /\ hist' = <<>>
    /\ lastReply' = NoReply
    /\ how' = "none"
    /\ results' = [i \in Slots |-> Unresolved]
    /\ final' = NoFinal
    /\ total' = Unresolved
    /\ prompt' = NoResult
    /\ posted' = 0
    /\ UNCHANGED <<cwd, agents, inflight, service>>

\* main, lines 295-303: response = row["response"] and the call of
\* grade_response; without the column the KeyError reaches the except clause
\* of line 349
ReadRow ==
    /\ bpc = "loaded"
    /\ driver = "prof_sean"
    /\ completed < sheet.rows
    /\ IF sheet.response
       THEN /\ CallGrade(sheet.cells[completed + 1])
            /\ bpc' = "grading"
            /\ UNCHANGED <<statuslog, bexit>>
       ELSE /\ statuslog' = Append(statuslog, ErrorRecord(NoResponseColumn))
            /\ bpc' = "exited"
            /\ bexit' = "raised"
            /\ UNCHANGED <<cell, gradeVars, contextVars, requestVars>>
    /\ UNCHANGED <<driver, sheet, completed, saved>>
    /\ UNCHANGED <<repairVars, indexVars, extractVars, cliVars, promptVars>>

\* main, lines 300-333: grade_response has returned; the scores and comments
\* go into the frame and the progress record is written
GradeRow ==
    /\ bpc = "grading"
    /\ driver = "prof_sean"
    /\ gpc = "done"
    /\ completed' = completed + 1
    /\ statuslog' = Append(statuslog, ProcessingRow(completed + 1, sheet.rows))
    /\ bpc' = "loaded"
    /\ UNCHANGED <<driver, sheet, saved, bexit, cell>>
    /\ UNCHANGED <<repairVars, gradeVars, indexVars, contextVars, extractVars, cliVars>>
    /\ UNCHANGED <<promptVars, requestVars>>

\* an exception leaves grade_response and the loop: the except clause of main,
\* lines 349-355, writes str(e) and raises again; grade_essays catches nothing
GradeFails ==
    /\ bpc = "grading"
    /\ cpc = "crashed" \/ gpc \in {"crashed_prompt", "crashed_agent", "crashed_sum"}
    /\ statuslog' = IF driver = "prof_sean"
                    THEN Append(statuslog, ErrorRecord(GradeError))
                    ELSE statuslog
    /\ bpc' = "exited"
    /\ bexit' = "raised"
    /\ UNCHANGED <<driver, sheet, completed, saved, cell>>
    /\ UNCHANGED <<repairVars, gradeVars, indexVars, contextVars, extractVars, cliVars>>
    /\ UNCHANGED <<promptVars, requestVars>>

\* main, lines 335-347: df.to_excel and the complete record
SaveOutput ==
    /\ bpc = "loaded"
    /\ driver = "prof_sean"
    /\ completed = sheet.rows
    /\ IF sheet.writable
       THEN /\ saved' = TRUE
            /\ statuslog' = Append(statuslog, CompleteRecord(sheet.rows))
            /\ bexit' = "returned"
       ELSE /\ saved' = FALSE
            /\ statuslog' = Append(statuslog, ErrorRecord(WriteError))
            /\ bexit' = "raised"
    /\ bpc' = "exited"
    /\ UNCHANGED <<driver, sheet, completed, cell>>
    /\ UNCHANGED <<repairVars, gradeVars, indexVars, contextVars, extractVars, cliVars>>
    /\ UNCHANGED <<promptVars, requestVars>>

\* grade_essays, lines 238-252: a missing or unreadable file is logged and the
\* function returns; df[col] of a Comment column the sheet lacks is a KeyError
\* that leaves the function
LegacyLoad ==
    /\ bpc = "start"
    /\ driver = "legacy"
    /\ IF ~sheet.readable THEN bpc' = "exited" /\ bexit' = "returned"
       ELSE IF ~sheet.comments THEN bpc' = "exited" /\ bexit' = "raised"
       ELSE bpc' = "loaded" /\ bexit' = bexit
    /\ UNCHANGED <<driver, sheet, completed, statuslog, saved, cell>>
    /\ UNCHANGED <<repairVars, gradeVars, indexVars, contextVars, extractVars, cliVars>>
    /\ UNCHANGED <<promptVars, requestVars>>

\* grade_essays, lines 254-257: response = row.get("response", ""), which is
\* "" without the column, and the call of grade_response
LegacyReadRow ==
    /\ bpc = "loaded"
    /\ driver = "legacy"
    /\ completed < sheet.rows
    /\ CallGrade(IF sheet.response THEN sheet.cells[completed + 1] ELSE JStr(""))
    /\ bpc' = "grading"
    /\ UNCHANGED <<driver, sheet, completed, statuslog, saved, bexit>>
    /\ UNCHANGED <<repairVars, indexVars, extractVars, cliVars, promptVars>>

\* grade_essays, lines 257-271: grade_response has returned; the scores and
\* comments go into the frame
LegacyGradeRow ==
    /\ bpc = "grading"
    /\ driver = "legacy"
    /\ gpc = "done"
    /\ completed' = completed + 1
    /\ bpc' = "loaded"
    /\ UNCHANGED <<driver, sheet, statuslog, saved, bexit, cell>>
    /\ UNCHANGED <<repairVars, gradeVars, indexVars, contextVars, extractVars, cliVars>>
    /\ UNCHANGED <<promptVars, requestVars>>

\* grade_essays, lines 273-286: the output file and the status record
LegacySave ==
    /\ bpc = "loaded"
    /\ driver = "legacy"
    /\ completed = sheet.rows
    /\ IF sheet.writable
       THEN /\ saved' = TRUE
            /\ statuslog' = Append(statuslog, LegacyComplete)
            /\ bexit' = "returned"
       ELSE /\ UNCHANGED <<saved, statuslog>>
            /\ bexit' = "raised"
    /\ bpc' = "exited"
    /\ UNCHANGED <<driver, sheet, completed, cell>>
    /\ UNCHANGED <<repairVars, gradeVars, indexVars, contextVars, extractVars, cliVars>>
    /\ UNCHANGED <<promptVars, requestVars>>

(***************************************************************************)
(* Specifications                                                           *)
(***************************************************************************)
RepairNext == Encode \/ FunctionCall \/ ToolText \/ Pad \/ Prose \/ Repair
RepairSpecInit == RepairInit /\ GradeOff /\ IndexOff /\ ContextOff /\ ExtractOff /\ CliOff /\ PromptOff /\ RequestOff /\ BatchOff
SpecRepair == RepairSpecInit /\ [][RepairNext]_vars

GradeNext ==
    DetermineCategories \/ AugmentWithRag \/ RunAgent \/ Post \/ Respond \/ AgentSleep \/ Aggregate
GradeSpecInit == GradeInit /\ RepairOff /\ ExtractOff /\ CliOff /\ PromptOff /\ BatchOff
SpecGrade == GradeSpecInit /\ [][GradeNext]_vars

\* the index store of one tenant, whose file is absent or unreadable at first
IndexInit ==
    /\ ipc = "idle"
    /\ file \in {Absent, Corrupt}
    /\ pending = NoSet
    /\ prevFile = file
    /\ newK = NoK
    /\ existed = FALSE
    /\ iresult = "none"
    /\ loaded = NoLoad
    /\ rres = NoRetrieve
    /\ icall = NoCall

IndexNext ==
    InitStart \/ SaveOpen \/ SaveWrite \/ Crash \/ Load \/ Retrieve \/ ReaderDone
IndexSpecInit == IndexInit /\ RepairOff /\ GradeOff /\ ContextOff /\ ExtractOff /\ CliOff /\ PromptOff /\ RequestOff /\ BatchOff
SpecIndex == IndexSpecInit /\ [][IndexNext]_vars

ContextNext == DetermineCategories \/ AugmentWithRag
ContextSpecInit == ContextInit /\ RepairOff /\ GradeOff /\ IndexOff /\ ExtractOff /\ CliOff /\ PromptOff /\ RequestOff /\ BatchOff
SpecContext == ContextSpecInit /\ [][ContextNext]_vars

ExtractNext == Extract \/ Categorize
ExtractSpecInit == ExtractInit /\ RepairOff /\ GradeOff /\ IndexOff /\ ContextOff /\ CliOff /\ PromptOff /\ RequestOff /\ BatchOff
SpecExtract == ExtractSpecInit /\ [][ExtractNext]_vars

CliNext == MainArgs \/ MainRun \/ SaveOpen \/ SaveWrite \/ Crash \/ MainReport \/ MainExit
CliSpecInit == CliInit /\ RepairOff /\ GradeOff /\ ExtractOff /\ PromptOff /\ RequestOff /\ BatchOff
SpecCli == CliSpecInit /\ [][CliNext]_vars

PromptNext == BuildPrompt
PromptSpecInit ==
    PromptInit /\ RepairOff /\ GradeOff /\ IndexOff /\ ContextOff /\ ExtractOff /\ CliOff
    /\ RequestOff /\ BatchOff
SpecPrompt == PromptSpecInit /\ [][PromptNext]_vars

RequestNext ==
    DetermineCategories \/ AugmentWithRag \/ RunAgent \/ Post \/ Respond \/ AgentSleep
    \/ Aggregate
RequestSpecInit == RequestInit /\ RepairOff /\ ExtractOff /\ CliOff /\ PromptOff /\ BatchOff

BatchNext ==
    LoadSheet \/ ReadRow \/ DetermineCategories \/ AugmentWithRag \/ RunAgent \/ Post
    \/ Respond \/ AgentSleep \/ Aggregate \/ GradeRow \/ GradeFails \/ SaveOutput
    \/ LegacyLoad \/ LegacyReadRow \/ LegacyGradeRow \/ LegacySave
BatchSpecInit ==
    BatchInit /\ RepairOff /\ GradeOff /\ IndexOff /\ ContextOff /\ ExtractOff /\ CliOff
    /\ PromptOff
SpecBatch == BatchSpecInit /\ [][BatchNext]_vars
SpecRequest == RequestSpecInit /\ [][RequestNext]_vars
\* the steps of run_agent's loop are taken when they can be: a request that
\* can be sent is sent, an answer the service gives is handled, a sleep ends,
\* and the total is computed once the slots are resolved
FairSpecRequest ==
    SpecRequest /\ WF_vars(Post) /\ WF_vars(Respond) /\ WF_vars(AgentSleep)
    /\ WF_vars(Aggregate)

(***************************************************************************)
(* Properties                                                               *)
(***************************************************************************)
\* a JSON value that is integer-like: an integer, or a string of digits
IntegerLike(v) ==
    \/ v.t = "num"
    \/ v.t = "str" /\ v.v # "" /\ \A i \in 1..Len(v.v) : Ch(v.v, i) \in Digits

\* the slots run_agent has returned for
ResolvedSlots ==
    {i \in Slots : i < slot \/ (i = slot /\ gpc \in {"resolved", "done", "crashed_sum"})}

\* C1: the retry protocol of one agent slot.  The service is called at most 3
\* times; no attempt follows an attempt that validated, and the slot resolves
\* to the pair that attempt produced, with no delay after it; the delay after
\* failed attempt n (n = 0, 1) is 2^n seconds, so the delays are 1s then 2s; no
\* delay follows the third failed attempt, which resolves the slot to the
\* fallback; the literal well-formed reply is accepted on attempt 1.
C1_RetryProtocol ==
    /\ calls <= 3
    /\ Len(hist) = calls
    /\ attempt <= 2
    /\ delays = SubSeq(<<1, 2>>, 1, attempt)
    /\ \A i \in 1..(Len(hist) - 1) : hist[i].out = "fail"
    /\ gpc = "call" => calls = attempt
    /\ gpc = "sleep" => calls = attempt + 1 /\ calls < 3 /\ hist[calls].out = "fail"
    /\ gpc \in {"resolved", "done", "crashed_sum"} =>
          /\ calls = attempt + 1
          /\ Len(delays) = calls - 1
          /\ how \in {"valid", "fallback"}
    /\ how = "valid" =>
          /\ hist[calls].out = "ok"
          /\ AttemptTable[lastReply].out = "ok"
          /\ results[slot] = AttemptTable[lastReply].val
    /\ how = "fallback" =>
          /\ calls = 3
          /\ delays = <<1, 2>>
          /\ hist[3].out = "fail"
          /\ results[slot] = FallbackPair
    /\ (calls = 1 /\ lastReply = TextReply(WellFormedText)) =>
          /\ how = "valid"
          /\ delays = <<>>
          /\ results[slot] = Pair(JNum(25), JStr("Good structure."))

\* C1 witness: a slot that resolved on its third attempt, after two failed
\* attempts and the delays 1s and 2s, to the pair of the well-formed reply
C1_Witness ==
    /\ gpc = "resolved"
    /\ how = "valid"
    /\ calls = 3
    /\ delays = <<1, 2>>
    /\ lastReply = TextReply(WellFormedText)
    /\ results[slot] = Pair(JNum(25), JStr("Good structure."))

\* C2: a slot all of whose attempts got a malformed response (text that is
\* not a {score, feedback} object) or no response at all resolves only after
\* three attempts and the delays 1s, 2s, and then to the fixed fallback pair.
C2_MalformedThenFallback ==
    (/\ gpc = "resolved"
     /\ \A i \in 1..Len(hist) : hist[i].class \in {"malformed", "transport"})
    => /\ calls = 3
       /\ delays = <<1, 2>>
       /\ results[slot] = FallbackPair

\* C3: whatever the service does, grading is never aborted inside a slot:
\* no attempt ends in an error that run_agent lets through.
C3_NeverAborts == gpc # "crashed_agent"

\* C4: every pair a slot resolves to has an integer-like score and a string
\* feedback.
C4_ResolvedPairTypes ==
    \A i \in ResolvedSlots :
        /\ IntegerLike(GetKey(results[i], "score", Unresolved))
        /\ GetKey(results[i], "feedback", Unresolved).t = "str"

\* C5: when the four slots have resolved, grade_response returns their four
\* pairs unchanged and a total_score that is the integer sum of the four
\* resolved scores.
C5_TotalIsSum ==
    (gpc \in {"done", "crashed_sum"}) =>
        /\ gpc = "done"
        /\ \A i \in Slots :
              /\ final[i].score = GetKey(results[i], "score", Unresolved)
              /\ final[i].feedback = GetKey(results[i], "feedback", Unresolved)
        /\ \A i \in Slots : final[i].score.t = "num"
        /\ total = JNum(final[1].score.v + final[2].score.v
                        + final[3].score.v + final[4].score.v)

\* C6: for every string input clean_response_text returns a JSON object that
\* has both a score and a feedback field.
C6_RepairTotal ==
    (rpc = "done" /\ rtext.t = "str") => IsScoreFeedbackText(rout)

\* C7: persisting a tenant's set is atomic.  A load during a save observes
\* the previously persisted set (or its absence) or the complete new set, and
\* after a crash during the save the file still loads as it did before.
C7_AtomicSave ==
    /\ loaded.at = "save_write" =>
          \/ [ok |-> loaded.ok, set |-> loaded.set] = load_faiss_indices(prevFile)
          \/ [ok |-> loaded.ok, set |-> loaded.set] = [ok |-> TRUE, set |-> pending]
    /\ (ipc = "idle" /\ iresult = "killed") =>
          load_faiss_indices(file) = load_faiss_indices(prevFile)

\* C8: when the tenant's set existed and loaded, each topic that received at
\* least one newly classified chunk ends with an index holding exactly the
\* chunks of this call: they replace what the topic held before.
C8_UpdateReplaces ==
    (ipc = "idle" /\ iresult = "ok" /\ existed) =>
        \A c \in Categories :
            newK[c] # <<>> =>
                /\ load_faiss_indices(file).ok
                /\ c \in DOMAIN load_faiss_indices(file).set
                /\ PageContents(load_faiss_indices(file).set[c]) = newK[c]

\* C8 witness: an update finished for a topic whose earlier index held other
\* chunks, and the topic now holds the new ones
C8_Witness ==
    /\ ipc = "idle"
    /\ iresult = "ok"
    /\ existed
    /\ \E c \in Categories :
          /\ c \in DOMAIN load_faiss_indices(prevFile).set
          /\ newK[c] # <<>>
          /\ PageContents(load_faiss_indices(prevFile).set[c]) # newK[c]
          /\ Len(load_faiss_indices(prevFile).set[c]) >= 2
          /\ PageContents(load_faiss_indices(file).set[c]) = newK[c]

\* C9: after a build succeeded, a load for the tenant yields a set whose
\* topics are exactly the input topics with at least one chunk, each with as
\* many chunks as in the input; and no persisted set holds an empty topic.
C9_BuildLoadRoundTrip ==
    /\ (loaded.at = "idle" /\ iresult = "ok") =>
          /\ loaded.ok
          /\ DOMAIN loaded.set = {c \in Categories : newK[c] # <<>>}
          /\ \A c \in DOMAIN loaded.set : Len(loaded.set[c]) = Len(newK[c])
    /\ load_faiss_indices(file).ok =>
          \A c \in DOMAIN load_faiss_indices(file).set :
             Len(load_faiss_indices(file).set[c]) >= 1

\* C9 witness: a load after a successful build of an input with a topic of
\* several chunks, a topic of one chunk and topics without any
C9_Witness ==
    /\ loaded.at = "idle"
    /\ iresult = "ok"
    /\ loaded.ok
    /\ \E c \in DOMAIN loaded.set : Len(newK[c]) >= 2
    /\ \E c \in Categories : newK[c] = <<>> /\ c \notin DOMAIN loaded.set

\* C10: retrieve returns the empty sequence and raises no error whenever the
\* tenant's set holds no index for the topic.
C10_AbsentTopicEmpty ==
    (rres.at # "none" /\ ~rres.indexed) => (~rres.raised /\ rres.docs = <<>>)

\* C11: a call of initialize_rag_pipeline that finds a persisted file which
\* exists but cannot be deserialized, and is given valid arguments and material
\* that extracts, takes the full rebuild and reports success; when it has
\* returned, the file loads and holds exactly the topics that received a chunk
\* of that material, each with its chunks.
C11_UnreadableFallsBack ==
    LET unreadable == icall.before \in {"corrupt", "partial"}
        l == load_faiss_indices(file)
    IN /\ (unreadable /\ icall.args = "valid" /\ icall.material) =>
              /\ icall.result.success
              /\ icall.result.route = "full"
              /\ iresult \in {"running", "ok", "killed"}
       /\ (unreadable /\ ipc = "idle" /\ iresult = "ok") =>
              /\ l.ok
              /\ DOMAIN l.set = {c \in Categories : newK[c] # <<>>}
              /\ \A c \in DOMAIN l.set : PageContents(l.set[c]) = newK[c]

C11_Witness ==
    /\ icall.before = "corrupt"
    /\ icall.args = "valid"
    /\ ipc = "idle"
    /\ iresult = "ok"
    /\ load_faiss_indices(file).ok
    /\ DOMAIN load_faiss_indices(file).set # {}
    /\ DOMAIN load_faiss_indices(file).set # Categories

\* word occurs in text, letter case of the text ignored
OccursIn(text, word) ==
    \E i \in 1..(Len(text) - Len(word) + 1) :
       \A j \in 1..Len(word) : LowerCh(Ch(text, i + j - 1)) = Ch(word, j)

\* the keyword families of the four keyword-mapped topics
Keywords ==
    [c \in {"Market Segmentation", "Targeting", "Differentiation & Positioning",
            "Marketing Mix (4Ps)"} |->
       CASE c = "Market Segmentation" -> {"segmentation"}
         [] c = "Targeting" -> {"targeting"}
         [] c = "Differentiation & Positioning" -> {"differentiation", "positioning"}
         [] c = "Marketing Mix (4Ps)" -> {"pricing", "product"}]

\* the topics one of whose keywords occurs in each modelled response
MatchedTopics ==
    [r \in Responses |->
       {c \in DOMAIN Keywords : \E w \in Keywords[c] : OccursIn(r, w)}]

\* C12: determine_categories returns a non-empty list without duplicates; each
\* of the four keyword-mapped topics is in it exactly when one of its keywords
\* occurs in the response, letter case ignored; the catch-all topic "Marketing
\* Strategy & Planning" is in it exactly when no keyword occurs; a response that
\* is just "pricing strategy" gives {"Marketing Mix (4Ps)"} and the empty
\* response gives {"Marketing Strategy & Planning"}.
C12_TopicSelection ==
    cpc \in {"selected", "done"} =>
       /\ cats # <<>>
       /\ Cardinality(Range(cats)) = Len(cats)
       /\ Range(cats) \subseteq Categories
       /\ \A c \in DOMAIN Keywords : c \in Range(cats) <=> c \in MatchedTopics[etext]
       /\ "Marketing Strategy & Planning" \in Range(cats) <=> MatchedTopics[etext] = {}
       /\ etext = "pricing strategy" => Range(cats) = {"Marketing Mix (4Ps)"}
       /\ etext = "" => Range(cats) = {"Marketing Strategy & Planning"}

C12_Witness ==
    /\ cpc = "selected"
    /\ etext = "TARGETING Products"
    /\ Range(cats) = {"Targeting", "Marketing Mix (4Ps)"}

\* C13: the context string augment_with_rag returns is never empty: it is the
\* placeholder "No relevant context found." when the retrieval calls returned no
\* chunk text, and otherwise the retrieved chunk texts joined by newlines, each
\* distinct text exactly once.
C13_ContextNeverEmpty ==
    cpc = "done" =>
       LET texts == Range(Extend(rlog, 1))
       IN /\ ctx # ""
          /\ texts = {} => ctx = "No relevant context found."
          /\ texts # {} => \E q \in Orderings(texts) : ctx = Join(q, "\n")

C13_Witness ==
    /\ cpc = "done"
    /\ Cardinality(Range(Extend(rlog, 1))) = 2
    /\ Len(SplitOn(ctx, "\n", 1)) = 2

\* whether each modelled chunk names all four steps, letter case ignored
AllFourSteps ==
    [chunk \in ChunkTexts |->
       \A step \in {"segmentation", "targeting", "differentiation", "positioning"} :
          OccursIn(chunk, step)]

\* C14: retrieve_relevant_text returns, of the candidates the similarity search
\* gave, those that name all four steps (segmentation, targeting,
\* differentiation, positioning; letter case ignored) when there is one, and
\* all candidates otherwise, in the candidates' order; its result is empty only
\* if there was no candidate.
C14_PrioritizedSubsequence ==
    (rres.at # "none" /\ ~rres.raised) =>
       LET cands == rres.retrieved_docs
           Q == {i \in DOMAIN cands : AllFourSteps[cands[i].page_content]}
           Kept == IF Q = {} THEN DOMAIN cands ELSE Q
       IN /\ Len(rres.docs) = Cardinality(Kept)
          /\ \A i \in Kept :
                rres.docs[Cardinality({j \in Kept : j <= i})] = cands[i].page_content
          /\ rres.docs = <<>> => cands = <<>>

\* C14 witness: the search gave the four documents of a store in an order
\* that is not the store's; the first and the third, of different text, name
\* all four steps and are the result, in the order the search gave them, which
\* is the reverse of the order the store holds them in
C14_Witness ==
    /\ rres.at # "none"
    /\ rres.indexed
    /\ Len(rres.retrieved_docs) = 4
    /\ Len(load_faiss_indices(file).set[rres.category]) = 4
    /\ rres.retrieved_docs[1] = load_faiss_indices(file).set[rres.category][4]
    /\ rres.retrieved_docs[3] = load_faiss_indices(file).set[rres.category][3]
    /\ ~AllFourSteps[rres.retrieved_docs[2].page_content]
    /\ ~AllFourSteps[rres.retrieved_docs[4].page_content]
    /\ rres.docs = << rres.retrieved_docs[1].page_content,
                      rres.retrieved_docs[3].page_content >>
    /\ rres.docs[1] # rres.docs[2]

\* C15: categorize_extracted_text leaves out every chunk that holds "case
\* study" (letter case ignored) and is longer than 800 characters, and puts every
\* other chunk into the list of exactly one topic; each topic's list keeps the
\* order of the chunks, so the lists partition the chunks that were not left out.
C15_ClassificationPartitions ==
    xpc = "classified" =>
       LET Excluded(chunk) == OccursIn(chunk, "case study") /\ Len(chunk) > 800
           TopicsOf(chunk) == {c \in Categories : chunk \in Range(xK[c])}
       IN /\ DOMAIN xK = Categories
          /\ \A i \in DOMAIN xchunks :
                IF Excluded(xchunks[i]) THEN TopicsOf(xchunks[i]) = {}
                ELSE Cardinality(TopicsOf(xchunks[i])) = 1
          /\ \A c \in Categories :
                LET InList(chunk) == chunk \in Range(xK[c])
                IN xK[c] = SelectSeq(xchunks, InList)

C15_Witness ==
    /\ xpc = "classified"
    /\ Len(xchunks) = 4
    /\ Len(xK["Marketing Strategy & Planning"]) = 2
    /\ Len(xK["Market Segmentation"]) = 1
    /\ \E i \in DOMAIN xchunks : OccursIn(xchunks[i], "case study")

\* C16: when the text of the three-page file, whose second page is a passage
\* of 850 characters that holds "case study", has been cut with window 800 and
\* overlap 200 and classified, no chunk of that passage is in any topic's list.
C16_LongCaseStudyDropped ==
    (xpc = "classified" /\ xpath = Textbook) =>
       \A c \in Categories : \A i \in DOMAIN xK[c] :
          ~Contains(CaseStudyPassage, xK[c][i])

\* C17: every call of load_course_materials either returns text that is not
\* blank or fails with one of the four extraction errors NotFound,
\* IsADirectory, UnsupportedFormat, EmptyExtraction.
C17_FourErrors ==
    \A i \in DOMAIN xlog :
       IF xlog[i].result.ok THEN Strip(xlog[i].result.text) # ""
       ELSE xlog[i].result.error
               \in {"NotFound", "IsADirectory", "UnsupportedFormat", "EmptyExtraction"}

\* C18: directory-mode extraction calls load_course_materials for each listed
\* file with a recognized extension, skips those that fail, returns the texts
\* of those that succeed joined by a blank line, and fails exactly when none
\* succeeds.
C18_DirectorySkipsFailures ==
    (xpath.kind = "dir" /\ xpc # "start") =>
       LET Recognized(child) ==
               \E ext \in {".pdf", ".docx", ".txt"} :
                  /\ Len(child.name) > Len(ext)
                  /\ Lower(SubSeq(child.name, Len(child.name) - Len(ext) + 1,
                                  Len(child.name))) = ext
                  /\ \E j \in 1..(Len(child.name) - Len(ext)) : Ch(child.name, j) # "."
           files == SelectSeq(xpath.children, Recognized)
           Succeeded(child) == load_course_materials(child).ok
           good == SelectSeq(files, Succeeded)
       IN /\ Len(xlog) = Len(files)
          /\ \A i \in DOMAIN xlog : xlog[i].node = files[i]
          /\ xres.ok <=> good # <<>>
          /\ xres.ok =>
                xres.text = Join([i \in 1..Len(good) |-> load_course_materials(good[i]).text],
                                 "\n\n")
          /\ (xpc = "failed") <=> ~xres.ok

C18_Witness ==
    /\ xpath.kind = "dir"
    /\ xpc = "extracted"
    /\ Len(xlog) = 2
    /\ ~xlog[1].result.ok
    /\ xlog[2].result.ok
    /\ xres.text = xlog[2].result.text

\* C19: in every run of the command line, standard output receives exactly one
\* item, the JSON result object; no diagnostic text is written to it.
C19_StdoutOnlyJson ==
    mpc = "exited" =>
       /\ Len(stdout) = 1
       /\ json_loads(stdout[1]).ok
       /\ json_loads(stdout[1]).val.t = "obj"

\* C20: initialize_rag_pipeline does not end in an unhandled exception: called
\* without a tenant, without a project root, with a path that does not exist, or
\* with material from which no document can be extracted, it returns a result
\* with success false and a message that is not empty; the program prints that
\* result and exits with status 0 exactly when success is true.
C20_StructuredFailure ==
    mpc = "exited" =>
       LET printed == json_loads(stdout[Len(stdout)])
           viaInitialize == ~(margs.reinitialize /\ margs.file = "dir")
           unrecoverable ==
              \/ margs.tenant = ""
              \/ ~margs.root
              \/ margs.file = "missing"
              \/ ~mmaterial.ok
       IN /\ mresult.success \in BOOLEAN
          /\ (viaInitialize /\ unrecoverable) =>
                (~mresult.success /\ mresult.message # "")
          /\ printed.ok
          /\ HasKey(printed.val, "success") /\ HasKey(printed.val, "message")
          /\ GetKey(printed.val, "success", JLit("null"))
                = JLit(IF mresult.success THEN "true" ELSE "false")
          /\ GetKey(printed.val, "message", JLit("null")) = JStr(mresult.message)
          /\ exit \in {0, 1}
          /\ exit = 0 <=> mresult.success

\* the text with every doubled brace replaced by one
Unescaped(text) == Replace(Replace(text, "{{", "{"), "}}", "}")

\* the template with the essay and the context put in place of its two
\* placeholders, which end the template
Filled(t, essay, rag_context) ==
    LET Fill(parts) ==
           Unescaped(parts[1]) \o "Essay: " \o essay \o "  \nRelevant Context: "
           \o rag_context \o "\n"
    IN Fill(SplitOn(t, Placeholders, 1))

\* C30: building the prompt succeeds for each of the four templates, whatever
\* the response text and the context string are (braces included), and the
\* prompt is the template with its essay and context placeholders replaced.
C30_PromptBuilt ==
    ppc = "built" =>
       /\ pout.ok
       /\ pout.text = Filled(TemplateOf(pagents, pslot), pessay, pcontext)
\* the phase of grade_response: 1 TopicSelection, 2 ContextRetrieval,
\* 3 AgentInvocation, 4 Aggregation, 5 Done
PhaseOf ==
    IF cpc = "start" THEN 1
    ELSE IF cpc = "selected" THEN 2
    ELSE IF gpc = "done" THEN 5
    ELSE IF gpc = "crashed_sum" \/ (gpc = "resolved" /\ slot = NumAgents) THEN 4
    ELSE 3

\* C21: in every run of grade_response the phases come in the order
\* TopicSelection, ContextRetrieval, AgentInvocation, Aggregation, Done and none
\* is entered again: the topics are selected before the first retrieval, the
\* retrievals are over before the first call of the generation service, the
\* four slots are resolved before the total is computed, and at most one call
\* of the generation service is in flight.
C21_PhaseOrder ==
    [][ /\ PhaseOf' \in {PhaseOf, PhaseOf + 1}
        /\ cats' # cats => (PhaseOf = 1 /\ rlog = <<>> /\ posted = 0)
        /\ (rlog' # rlog \/ ctx' # ctx) => (PhaseOf = 2 /\ posted = 0)
        /\ posted' # posted =>
              (PhaseOf = 3 /\ cpc = "done" /\ inflight = 0 /\ total = Unresolved)
        /\ (final' # final \/ total' # total) =>
              (PhaseOf = 4 /\ inflight = 0 /\ \A i \in Slots : results[i] # Unresolved)
        /\ inflight' \in {0, 1}
      ]_vars

C21_Witness ==
    /\ agents = "described"
    /\ gpc = "done"
    /\ Len(rlog) = 2
    /\ posted > NumAgents
    /\ total # Unresolved

\* C22: every call of the generation service ends, by a reply or by a timeout,
\* so a slot never waits without bound: a request that is waiting for the
\* service stops waiting.
C22_EveryCallReturns == (gpc = "waiting") ~> (gpc # "waiting")

\* C24: each retrieval made for a grading request reads the index set of the
\* request's tenant: what a call retrieved is what the tenant's persisted set
\* gives for that category.
C24_TenantIndexRead ==
    cpc = "done" =>
       \A i \in 1..Len(rlog) :
          \E hits \in HitsIn(file, rlog[i].category) :
             rlog[i].retrieved_docs
                = retrieve_relevant_text(rlog[i].category, TRUE, TRUE, hits).retrieved_docs
\* C23: the status records of a job follow processing -> complete | error:
\* progress never decreases and stays within 0..100, the completed count grows
\* by one per graded row, a complete record has progress 100 and is written
\* after the output has been saved, an error record has a message, nothing is
\* written after a terminal record, and the driver does not exit leaving the
\* status absent or not terminal.
C23_StatusLifecycle ==
    LET n == Len(statuslog)
        Terminal(r) == r.status \in {"complete", "error"}
        Progress(r) == IF "progress" \in DOMAIN r THEN r.progress ELSE -1
        Completed(r) == IF "completed" \in DOMAIN r THEN r.completed ELSE 0
    IN /\ \A i \in 1..n : statuslog[i].status \in {"processing", "complete", "error"}
       /\ \A i \in 1..(n - 1) :
             /\ ~Terminal(statuslog[i])
             /\ Terminal(statuslog[i + 1]) \/ Progress(statuslog[i]) <= Progress(statuslog[i + 1])
             /\ statuslog[i + 1].status = "processing" =>
                   Completed(statuslog[i + 1]) \in
                      {Completed(statuslog[i]), Completed(statuslog[i]) + 1}
       /\ \A i \in 1..n :
             /\ statuslog[i].status = "processing" => Progress(statuslog[i]) \in 0..100
             /\ statuslog[i].status = "complete" =>
                   (Progress(statuslog[i]) = 100 /\ saved)
             /\ statuslog[i].status = "error" => "message" \in DOMAIN statuslog[i]
       /\ n > 0 => Completed(statuslog[n]) \in {0, completed}
       /\ bexit # "running" => (n > 0 /\ Terminal(statuslog[n]))

\* C25: with the reinitialize flag, a directory of valid materials, a tenant and
\* a project root, the command line replaces the tenant's persisted set by one
\* built from the directory and exits 0 with a success result; the set loaded
\* afterwards for the tenant is the freshly built one.
C25_ForcedReinitialize ==
    (/\ mpc = "exited"
     /\ margs.reinitialize /\ margs.file = "dir" /\ margs.tenant # "" /\ margs.root
     /\ mmaterial.ok)
    => /\ exit = 0
       /\ mresult.success
       /\ load_faiss_indices(file).ok
       /\ load_faiss_indices(file).set
             = create_faiss_indices(categorize_extracted_text(mmaterial.chunks))

\* the topic names in lexicographic order
SortedTopics ==
    << "Differentiation & Positioning", "Market Segmentation", "Marketing Mix (4Ps)",
       "Marketing Strategy & Planning", "Targeting" >>

\* the topics at the least distance from the chunk
TiedTopics(chunk) ==
    LET F(low) ==
          {c \in Categories : \A o \in Categories : Distance(low, c) <= Distance(low, o)}
    IN F(Lower(chunk))

TiedTable == [chunk \in ChunkTexts |-> TiedTopics(chunk)]

\* C26: a chunk at the same least distance from two or more topics is put in
\* the lexicographically first of them.
C26_TieLexicographic ==
    \A c \in Categories :
       \A i \in 1..Len(newK[c]) :
          LET tied == TiedTable[newK[c][i]]
          IN c = SortedTopics[CHOOSE k \in 1..Len(SortedTopics) :
                                 /\ SortedTopics[k] \in tied
                                 /\ \A j \in 1..(k - 1) : SortedTopics[j] \notin tied]
\* the well-formed score/feedback objects among the payloads
ScoredBodies == {b \in RepairBodies : IsScoreFeedbackText(b)}

\* C27: a raw text that is a JSON string literal holding, under one or two
\* layers of string encoding, a well-formed object with score and feedback is
\* repaired to that object, with the same score and feedback.
C27_DoubleEncodedRecovered ==
    \A b \in ScoredBodies :
       (/\ rpc = "done"
        /\ rtext \in {JStr(WrapEncode(b)), JStr(WrapEncode(WrapEncode(b)))})
       => /\ json_loads(rout).ok
          /\ json_loads(rout).val = json_loads(b).val

\* the listings a file system can give for the same directory contents: the
\* same entries, each once, in any order
Relistings(children) ==
    {q \in [1..Len(children) -> Range(children)] : Range(q) = Range(children)}

\* C28: in directory mode the joined text, and so the chunk sequence, depends
\* only on the files and not on the order the file system lists them in: any
\* other listing of the same entries gives the same text and the same chunks.
C28_ListingOrderIrrelevant ==
    (/\ xpc \in {"extracted", "classified"}
     /\ xpath.kind = "dir"
     /\ Cardinality(Range(xpath.children)) = Len(xpath.children))
    => \A q \in Relistings(xpath.children) :
          /\ JoinLoaded(LoadEach(q)) = xres
          /\ xpc = "classified" => split_text(JoinLoaded(LoadEach(q)).text) = xchunks

\* C29: when a build or update call has succeeded, the persisted set holds
\* exactly the topics that received at least one chunk in that call, each with
\* that call's chunks only; a topic the earlier set held that received no chunk
\* in the call is gone.
C29_SetIsLatestCall ==
    (ipc = "idle" /\ iresult = "ok") =>
        /\ load_faiss_indices(file).ok
        /\ DOMAIN load_faiss_indices(file).set = {c \in Categories : newK[c] # <<>>}
        /\ \A c \in DOMAIN load_faiss_indices(file).set :
              PageContents(load_faiss_indices(file).set[c]) = newK[c]
        /\ \A c \in Categories :
              newK[c] = <<>> => c \notin DOMAIN load_faiss_indices(file).set

\* C29 witness: a call succeeded on a tenant whose earlier set held a topic
\* that received no chunk in the call, and the set no longer holds that topic
C29_Witness ==
    /\ ipc = "idle"
    /\ iresult = "ok"
    /\ load_faiss_indices(prevFile).ok
    /\ \E c \in DOMAIN load_faiss_indices(prevFile).set :
          /\ newK[c] = <<>>
          /\ c \notin DOMAIN load_faiss_indices(file).set
    /\ \E c \in DOMAIN load_faiss_indices(file).set :
          c \notin DOMAIN load_faiss_indices(prevFile).set

====
